---------------------------- MODULE Spec2Model ----------------------------
(***************************************************************************)
(* Dataset curation pipeline of nochadisfaction/pixelated:                 *)
(*   - ConversationDeduplicator            (src/create_dedup.py)           *)
(*   - DatasetValidationQASystem           (src/dataset_validation_qa_system.py) *)
(*   - TrainValidationTestSplitter         (src/train_validation_test_splitter.py) *)
(*   - ProductionDatasetGenerator          (src/production_dataset_generator.py) *)
(*   - QualityFilteringSystem, whose tests are src/create_test.py          *)
(*   - RatioBalancingAlgorithms, called by ProductionDatasetGenerator      *)
(* Each component has its own specification (SpecDedup, SpecValid,         *)
(* SpecSplit, SpecPipe, SpecFilter, SpecBalance) over its own variables;   *)
(* the variables of the other components stay at their idle values.        *)
(* SpecValidEdge, SpecTiny and SpecAbsent run the validator and the        *)
(* splitter on pools with malformed or incomplete records.                 *)
(*                                                                         *)
(* Numbers: Python floats are modelled by exact rationals <<num, den>>.    *)
(* Texts: sequences of one-character strings.  hashlib.md5 is modelled as  *)
(* an injective function of the normalized text (the text itself).         *)
(***************************************************************************)
EXTENDS Integers, Sequences, FiniteSets, TLC

VARIABLES
    \* ---- deduplication (create_dedup.py)
    conversations,      \* the caller's input list of Conversation objects
    dd_config,          \* DeduplicationConfig of the deduplicator
    dd_runs,            \* number of deduplicate_conversations calls made
    dd_input,           \* list passed to the latest call
    dd_result,          \* DeduplicationResult of the latest call
    dd_unique,          \* list returned by the latest module-level call
    dd_prev,            \* input, result and returned list of the call before
    \* ---- validation (dataset_validation_qa_system.py)
    vd_dataset,         \* the list of DatasetItem objects passed to validate_dataset
    vd_config,          \* ValidationConfig of the validation system
    vd_pc,              \* "idle" before validate_dataset, "done" after it returned
    vd_result,          \* the ValidationResult
    \* ---- grading of two ValidationResult objects (calculate_quality_grade)
    gr_score,           \* validation_score of result 1 and of result 2
    gr_grade,           \* quality_grade of each, "none" before it is calculated
    \* ---- splitting (train_validation_test_splitter.py)
    sp_dataset,         \* the list of items passed to split_dataset
    sp_config,          \* the SplitConfig, once constructed
    sp_rng,             \* state of the process-wide generator of the random module
    sp_pc,              \* per splitter: "none", "ready" (constructed), "done", "error", "raised"
    sp_result,          \* per splitter: the DatasetSplit it returned
    \* ---- pipeline run (production_dataset_generator.py)
    pl_source,          \* the records the data sources hold
    pl_config,          \* the PipelineConfig
    pl_stage,           \* current_stage of the generator
    pl_trace,           \* the values current_stage was set to, in order
    pl_data,            \* the local datasets of generate_production_dataset
    pl_metrics,         \* the local PipelineMetrics of the run
    pl_received,        \* the dataset each stage helper was called with
    pl_result,          \* the PipelineResult of the run
    \* ---- quality filter (quality_filtering_system.py)
    qf_scores,          \* individual_scores of the conversation being filtered
    qf_thresholds,      \* QualityThresholds of the filtering system
    qf_pc,              \* "idle" before the filter decided, "done" after
    qf_result,          \* the FilterResult
    \* ---- ratio balancer (ratio_balancing_algorithms.py)
    bl_counts,          \* number of records of each category in the pool
    bl_config,          \* the BalancingConfig
    bl_iter,            \* balancing passes made so far
    bl_pc,              \* "idle", "balancing" or "done"
    bl_report           \* the report of the latest pass

varsDedup == <<conversations, dd_config, dd_runs, dd_input, dd_result, dd_unique, dd_prev>>

varsValid == <<vd_dataset, vd_config, vd_pc, vd_result>>

varsGrade == <<gr_score, gr_grade>>

varsSplit == <<sp_dataset, sp_config, sp_rng, sp_pc, sp_result>>

varsPipe == <<pl_source, pl_config, pl_stage, pl_trace, pl_data, pl_metrics, pl_received,
              pl_result>>

varsFilter == <<qf_scores, qf_thresholds, qf_pc, qf_result>>

varsBalance == <<bl_counts, bl_config, bl_iter, bl_pc, bl_report>>

vars == <<varsDedup, varsValid, varsGrade, varsSplit, varsPipe, varsFilter, varsBalance>>

-----------------------------------------------------------------------------
(* Generic helpers *)

Range(s) == {s[i] : i \in 1..Len(s)}

Indices(s) == [i \in 1..Len(s) |-> i]

Min2(a, b) == IF a <= b THEN a ELSE b

Max2(a, b) == IF a >= b THEN a ELSE b

RECURSIVE SeqsUpTo(_, _)
SeqsUpTo(S, n) ==
    IF n = 0 THEN {<<>>}
    ELSE LET shorter == SeqsUpTo(S, n - 1)
         IN shorter \cup {Append(s, x) : s \in {t \in shorter : Len(t) = n - 1}, x \in S}

RECURSIVE Concat(_)
Concat(ss) == IF ss = <<>> THEN <<>> ELSE Head(ss) \o Concat(Tail(ss))

CountIn(s, x) == Cardinality({i \in 1..Len(s) : s[i] = x})

\* keys of a dict in insertion order: the first occurrences of a key sequence
FirstOccurrences(ks) == SelectSeq(Indices(ks), LAMBDA i : \A j \in 1..(i - 1) : ks[j] # ks[i])

-----------------------------------------------------------------------------
(* Exact rationals <<numerator, denominator>>, denominator > 0, in lowest
   terms, standing for the Python floats *)

Abs(x) == IF x < 0 THEN -x ELSE x

RECURSIVE GCD(_, _)
GCD(a, b) == IF b = 0 THEN a ELSE GCD(b, a % b)

Rat(n, d) == LET g == GCD(Abs(n), d) IN <<n \div g, d \div g>>

Zero == <<0, 1>>

One == <<1, 1>>

RAdd(a, b) == Rat(a[1] * b[2] + b[1] * a[2], a[2] * b[2])

RSub(a, b) == Rat(a[1] * b[2] - b[1] * a[2], a[2] * b[2])

RMul(a, b) == Rat(a[1] * b[1], a[2] * b[2])

RDivInt(a, k) == Rat(a[1], a[2] * k)

RLt(a, b) == a[1] * b[2] < b[1] * a[2]

RLe(a, b) == a[1] * b[2] <= b[1] * a[2]

RMax(a, b) == IF RLe(b, a) THEN a ELSE b

RMin(a, b) == IF RLe(a, b) THEN a ELSE b

RAbs(a) == <<Abs(a[1]), a[2]>>

RECURSIVE RSum(_)
RSum(xs) == IF xs = <<>> THEN Zero ELSE RAdd(Head(xs), RSum(Tail(xs)))

RMean(xs) == RDivInt(RSum(xs), Len(xs))

-----------------------------------------------------------------------------
(* Idle values: the state of a component before any of its operations ran *)

NoResult == [original_count |-> 0, duplicate_count |-> 0, unique_count |-> 0,
             duplicate_pairs |-> <<>>, duplicate_groups |-> <<>>,
             removed_items |-> <<>>, unique_positions |-> <<>>]

\* dd_prev.source tells where the latest call took its input from: the caller's
\* list ("input") or the list the call before returned ("returned")
NoCall == [input |-> <<>>, result |-> NoResult, unique |-> <<>>, source |-> "none"]

IdleDedup ==
    /\ conversations = <<>>
    /\ dd_config = [case_sensitive |-> FALSE, ignore_punctuation |-> TRUE,
                    min_conversation_length |-> 2]
    /\ dd_runs = 0
    /\ dd_input = <<>>
    /\ dd_result = NoResult
    /\ dd_unique = <<>>
    /\ dd_prev = NoCall

NoMetrics == [overall_quality_score |-> Zero, clinical_accuracy_score |-> Zero,
              conversation_quality_score |-> Zero, diversity_score |-> Zero,
              content_integrity_score |-> Zero, category_balance_score |-> Zero]

\* a freshly constructed ValidationResult
NoValidation == [is_valid |-> FALSE, validation_score |-> Zero, quality_grade |-> "F",
                 quality_metrics |-> NoMetrics, issues |-> <<>>,
                 ratio_validation |-> [performed |-> FALSE], recommendations |-> <<>>,
                 total_items |-> 0, valid_items |-> 0, invalid_items |-> 0]

DefaultValidationConfig ==
    [min_overall_quality |-> <<7, 10>>, min_clinical_accuracy |-> <<3, 4>>,
     ratio_tolerance |-> <<1, 20>>, min_content_length |-> 10,
     max_content_length |-> 10000, required_diversity_features |-> 2,
     min_dataset_size |-> 100, max_dataset_size |-> 100000,
     min_items_per_category |-> 5, max_category_imbalance |-> <<4, 5>>,
     clinical_validation_sample_size |-> 100]

IdleValid ==
    /\ vd_dataset = <<>>
    /\ vd_config = DefaultValidationConfig
    /\ vd_pc = "idle"
    /\ vd_result = NoValidation

IdleGrade ==
    /\ gr_score = [k \in 1..2 |-> Zero]
    /\ gr_grade = [k \in 1..2 |-> "none"]

\* no SplitConfig constructed yet
NoSplitConfig == [status |-> "none"]

\* no DatasetSplit returned yet
NoSplit == [train_data |-> <<>>, validation_data |-> <<>>, test_data |-> <<>>,
            original_dataset_size |-> 0]

IdleSplit ==
    /\ sp_dataset = <<>>
    /\ sp_config = NoSplitConfig
    /\ sp_rng = 0
    /\ sp_pc = [k \in 1..2 |-> "none"]
    /\ sp_result = [k \in 1..2 |-> NoSplit]

PipelineStage ==
    <<"initialization", "data_loading", "quality_filtering", "deduplication",
      "categorization", "ratio_balancing", "validation", "export", "complete">>

\* a freshly constructed PipelineMetrics
NoPipelineMetrics ==
    [raw_data_loaded |-> 0, items_after_filtering |-> 0,
     items_after_deduplication |-> 0, final_dataset_size |-> 0]

\* a freshly constructed PipelineResult; returned tells that
\* generate_production_dataset has returned it; exported_metrics is the
\* metrics report the export stage wrote ("none" when it wrote none)
NoPipelineResult ==
    [success |-> FALSE, dataset |-> <<>>, metrics |-> NoPipelineMetrics,
     validation_result |-> "None", error_log |-> <<>>, stage_results |-> <<>>,
     exported_metrics |-> <<>>, returned |-> FALSE]

\* the local variables of generate_production_dataset
NoPipelineData ==
    [raw_dataset |-> <<>>, filtered_dataset |-> <<>>, deduplicated_dataset |-> <<>>,
     categorized_dataset |-> <<>>, balanced_dataset |-> <<>>]

\* the dataset each stage was called with; <<0>>, which is no list of
\* positions, before the stage ran
NoneReceived ==
    [quality_filtering |-> <<0>>, deduplication |-> <<0>>, categorization |-> <<0>>,
     ratio_balancing |-> <<0>>, validation |-> <<0>>, export |-> <<0>>]

DefaultPipelineConfig ==
    [validation_enabled |-> TRUE, generate_reports |-> TRUE, target_dataset_size |-> 50000]

IdlePipe ==
    /\ pl_source = <<>>
    /\ pl_config = DefaultPipelineConfig
    /\ pl_stage = "initialization"
    /\ pl_trace = <<>>
    /\ pl_data = NoPipelineData
    /\ pl_metrics = NoPipelineMetrics
    /\ pl_received = NoneReceived
    /\ pl_result = NoPipelineResult

\* no FilterResult yet
NoFilterResult == [decision |-> "none", combined_score |-> Zero]

NoThresholds == [minimum_overall_score |-> Zero]

\* no conversation handed to the quality filter
IdleFilter ==
    /\ qf_scores = <<>>
    /\ qf_thresholds = NoThresholds
    /\ qf_pc = "idle"
    /\ qf_result = NoFilterResult

\* no report computed yet
NoReport == [max_deviation |-> Zero, within_tolerance |-> FALSE]

NoBalancingConfig == [max_iterations |-> 0]

\* no pool handed to the ratio balancer
IdleBalance ==
    /\ bl_counts = <<>>
    /\ bl_config = NoBalancingConfig
    /\ bl_iter = 0
    /\ bl_pc = "idle"
    /\ bl_report = NoReport

-----------------------------------------------------------------------------
(* Text normalization: TextNormalizer *)

NoneText == <<"<None>">>

UpperChars == {"A", "B"}

Lower(c) == CASE c = "A" -> "a" [] c = "B" -> "b" [] OTHER -> c

IsSpace(c) == c \in {" ", "\t"}

IsWord(c) == c \in {"a", "b", "A", "B", "_"}

LowerText(t) == [i \in 1..Len(t) |-> Lower(t[i])]

StripPunctuation(t) == SelectSeq(t, LAMBDA c : IsWord(c) \/ IsSpace(c))

CollapseSpaces(t) ==
    LET keep == SelectSeq(Indices(t),
                          LAMBDA i : ~IsSpace(t[i]) \/ i = 1 \/ ~IsSpace(t[i - 1]))
    IN [k \in 1..Len(keep) |-> IF IsSpace(t[keep[k]]) THEN " " ELSE t[keep[k]]]

RECURSIVE LStrip(_)
LStrip(t) == IF t # <<>> /\ IsSpace(Head(t)) THEN LStrip(Tail(t)) ELSE t

RECURSIVE RStrip(_)
RStrip(t) ==
    IF t # <<>> /\ IsSpace(t[Len(t)]) THEN RStrip(SubSeq(t, 1, Len(t) - 1)) ELSE t

Strip(t) == RStrip(LStrip(t))

NormalizeText(text, case_sensitive, ignore_punctuation) ==
    IF text = NoneText \/ text = <<>> THEN <<>>
    ELSE LET t1 == IF ~case_sensitive THEN LowerText(text) ELSE text
             t2 == IF ignore_punctuation THEN StripPunctuation(t1) ELSE t1
         IN Strip(CollapseSpaces(t2))

CreateContentHash(text) == NormalizeText(text, FALSE, TRUE)

RECURSIVE JoinSpace(_)
JoinSpace(parts) ==
    IF parts = <<>> THEN <<>>
    ELSE IF Len(parts) = 1 THEN parts[1]
    ELSE parts[1] \o <<" ">> \o JoinSpace(Tail(parts))

-----------------------------------------------------------------------------
(* ConversationDeduplicator *)

ExtractConversationContent(conv, cfg) ==
    JoinSpace([m \in 1..Len(conv.messages) |->
        NormalizeText(conv.messages[m], cfg.case_sensitive, cfg.ignore_punctuation)])

ConvHash(conv, cfg) == CreateContentHash(ExtractConversationContent(conv, cfg))

ValidConversationsStrict(convs, cfg) ==
    SelectSeq(Indices(convs),
              LAMBDA i : Len(convs[i].messages) > cfg.min_conversation_length)

\* positions of the input that pass the minimum-length filter, in input order
ValidConversations(convs, cfg) ==
    SelectSeq(Indices(convs),
              LAMBDA i : Len(convs[i].messages) >= cfg.min_conversation_length)

\* hash_to_conversations: the groups, in insertion order of their keys; each
\* group lists input positions in input order
HashToConversations(convs, cfg) ==
    LET valid == ValidConversations(convs, cfg)
        h == [i \in 1..Len(convs) |-> ConvHash(convs[i], cfg)]
        firsts == SelectSeq(valid,
                     LAMBDA i : \A j \in Range(valid) : j < i => h[j] # h[i])
    IN [k \in 1..Len(firsts) |-> SelectSeq(valid, LAMBDA i : h[i] = h[firsts[k]])]

GroupSurvivorLast(group) == group[Len(group)]

GroupSurvivor(group) == group[1]

GroupRemovedOnlyFirst(group) == SubSeq(group, 2, 2)

GroupRemoved(group) == SelectSeq(group, LAMBDA i : i # GroupSurvivor(group))

DuplicatePair(convs, group, i) ==
    [item1_id |-> convs[GroupSurvivor(group)].id, item2_id |-> convs[i].id,
     similarity_score |-> 1, metric |-> "content_hash",
     duplicate_type |-> "exact_duplicate"]

\* ConversationDeduplicator.deduplicate_conversations; unique_positions is the
\* method's local unique_conversations list, as positions of the input
DeduplicateMethod(convs, cfg) ==
    LET groups == HashToConversations(convs, cfg)
        multi  == SelectSeq(groups, LAMBDA g : Len(g) > 1)
        removed == Concat([k \in 1..Len(multi) |-> GroupRemoved(multi[k])])
        unique == [k \in 1..Len(groups) |-> GroupSurvivor(groups[k])]
    IN [original_count   |-> Len(convs),
        duplicate_count  |-> Len(removed),
        unique_count     |-> Len(unique),
        duplicate_pairs  |-> Concat([k \in 1..Len(multi) |->
                                [n \in 1..Len(GroupRemoved(multi[k])) |->
                                    DuplicatePair(convs, multi[k], GroupRemoved(multi[k])[n])]]),
        duplicate_groups |-> [k \in 1..Len(multi) |->
                                [n \in 1..Len(multi[k]) |-> convs[multi[k][n]].id]],
        removed_items    |-> [n \in 1..Len(removed) |-> convs[removed[n]].id],
        unique_positions |-> unique]

\* module-level deduplicate_conversations: the returned list, as positions
ReturnedUnique(convs, result) ==
    SelectSeq(Indices(convs), LAMBDA i : convs[i].id \notin Range(result.removed_items))

PickPositions(convs, positions) == [k \in 1..Len(positions) |-> convs[positions[k]]]

-----------------------------------------------------------------------------
(* Inputs of the deduplication specification *)

MaxConvs == 3

MaxRuns == 2

MessageLists ==
    { <<<<>>>>,
      <<<<>>, NoneText>>,
      <<<<" ">>, <<"!">>, <<>>>>,
      <<<<"A", "!">>, <<"b">>>>,
      <<<<"a">>, <<" ", "B", "\t">>>>,
      <<<<"a", "_">>, <<"b">>>> }

UniqueIds == <<"u1", "u2", "u3", "u4", "u5", "u6">>

\* identifiers are all distinct, all the same, or alternate between two values
IdSchemes(n) ==
    { [i \in 1..n |-> UniqueIds[i]],
      [i \in 1..n |-> "c1"],
      [i \in 1..n |-> IF i % 2 = 1 THEN "c1" ELSE "c2"] }

ConversationInputs ==
    UNION {{[i \in 1..n |-> [id |-> ids[i], messages |-> msgs[i]]] :
                ids \in IdSchemes(n), msgs \in [1..n -> MessageLists]} : n \in 0..MaxConvs}

DedupConfigs ==
    [case_sensitive : BOOLEAN, ignore_punctuation : BOOLEAN,
     min_conversation_length : {0, 2}]

DefaultDedupConfig ==
    [case_sensitive |-> FALSE, ignore_punctuation |-> TRUE, min_conversation_length |-> 2]

InitDedup ==
    /\ conversations \in ConversationInputs
    /\ dd_config \in DedupConfigs
    /\ dd_runs = 0
    /\ dd_input = <<>>
    /\ dd_result = NoResult
    /\ dd_unique = <<>>
    /\ dd_prev = NoCall
    /\ IdleValid
    /\ IdleGrade
    /\ IdleSplit
    /\ IdlePipe
    /\ IdleFilter
    /\ IdleBalance

\* one call of the module-level deduplicate_conversations(convs, config)
DedupCall(convs, source) ==
    LET result == DeduplicateMethod(convs, dd_config)
    IN /\ dd_runs < MaxRuns
       /\ dd_runs' = dd_runs + 1
       /\ dd_input' = convs
       /\ dd_result' = result
       /\ dd_unique' = ReturnedUnique(convs, result)
       /\ dd_prev' = [input |-> dd_input, result |-> dd_result,
                      unique |-> dd_unique,
                      source |-> source]
       /\ UNCHANGED <<conversations, dd_config, varsValid, varsGrade, varsSplit, varsPipe, varsFilter, varsBalance>>

\* the caller deduplicates its input list
DeduplicateInput == DedupCall(conversations, "input")

\* the caller deduplicates the list the previous call returned
DeduplicateReturned ==
    /\ dd_runs > 0
    /\ DedupCall(PickPositions(dd_input, dd_unique), "returned")

NextDedup == DeduplicateInput \/ DeduplicateReturned

SpecDedup == InitDedup /\ [][NextDedup]_vars

-----------------------------------------------------------------------------
(* DatasetValidationQASystem.  A DatasetItem is a record
     [item_id, content, category, quality_score, clinical_accuracy,
      conversation_quality, diversity_features]
   item_id "" stands for a missing or empty id; content is described by what
   the validator reads of it: its length, its number of words and whether it
   holds a dialogue marker (len 0 is empty or missing content); category is a
   category name or MissingCategory (no category attribute); a score is a
   rational, NoneScore or MalformedScore (a value that is no number, such as
   a string).  All validate_* flags keep their default (True).
   The standard deviations, the quality distribution and category_analysis
   are reporting-only outputs and are left out of the result. *)

NoneScore == <<0, 0>>

MalformedScore == <<1, 0>>

MissingCategory == "<missing>"

TargetCategories ==
    <<"clinical_conversations", "psychology_knowledge", "voice_derived_data",
      "edge_cases", "general_mental_health">>

TargetRatio(c) ==
    CASE c = "clinical_conversations" -> <<3, 10>>
      [] c = "psychology_knowledge"   -> <<1, 4>>
      [] c = "voice_derived_data"     -> <<1, 5>>
      [] c = "edge_cases"             -> <<3, 20>>
      [] c = "general_mental_health"  -> <<1, 10>>

\* add_issue(severity, issue_type, message, suggestion = ...): no caller passes
\* item_id, so field_name is None in every issue
Issue(severity, issue_type) ==
    [severity |-> severity, issue_type |-> issue_type, field_name |-> "None"]

GetIssuesBySeverity(issues, severity) == SelectSeq(issues, LAMBDA i : i.severity = severity)

IdealFeatureCount == 20

SampledPrefix == 100

ValidationScoreNoFloor(m, issues) ==
    LET score == RAdd(RAdd(RAdd(RAdd(RMul(<<3, 10>>, m.overall_quality_score),
                                     RMul(<<1, 4>>, m.clinical_accuracy_score)),
                                RMul(<<1, 5>>, m.conversation_quality_score)),
                           RMul(<<3, 20>>, m.diversity_score)),
                      RMul(<<1, 10>>, m.content_integrity_score))
        critical_issues == Len(GetIssuesBySeverity(issues, "critical"))
        high_issues == Len(GetIssuesBySeverity(issues, "high"))
        penalty == RAdd(Rat(critical_issues * 2, 10), Rat(high_issues, 10))
    IN RSub(score, penalty)

\* ValidationResult.calculate_validation_score
CalculateValidationScore(m, issues) ==
    LET score == RAdd(RAdd(RAdd(RAdd(RMul(<<3, 10>>, m.overall_quality_score),
                                     RMul(<<1, 4>>, m.clinical_accuracy_score)),
                                RMul(<<1, 5>>, m.conversation_quality_score)),
                           RMul(<<3, 20>>, m.diversity_score)),
                      RMul(<<1, 10>>, m.content_integrity_score))
        critical_issues == Len(GetIssuesBySeverity(issues, "critical"))
        high_issues == Len(GetIssuesBySeverity(issues, "high"))
        penalty == RAdd(Rat(critical_issues * 2, 10), Rat(high_issues, 10))
    IN RMax(Zero, RSub(score, penalty))

QualityGradeSwapped(score) ==
    IF RLe(<<9, 10>>, score) THEN "A"
    ELSE IF RLe(<<4, 5>>, score) THEN "C"
    ELSE IF RLe(<<7, 10>>, score) THEN "B"
    ELSE IF RLe(<<3, 5>>, score) THEN "D"
    ELSE "F"

\* ValidationResult.calculate_quality_grade
CalculateQualityGrade(score) ==
    IF RLe(<<9, 10>>, score) THEN "A"
    ELSE IF RLe(<<4, 5>>, score) THEN "B"
    ELSE IF RLe(<<7, 10>>, score) THEN "C"
    ELSE IF RLe(<<3, 5>>, score) THEN "D"
    ELSE "F"

\* _validate_dataset_structure: the issues it adds
ValidateDatasetStructure(ds, cfg) ==
    LET size_issue ==
            IF Len(ds) < cfg.min_dataset_size THEN <<Issue("critical", "dataset_size")>>
            ELSE IF Len(ds) > cfg.max_dataset_size THEN <<Issue("high", "dataset_size")>>
            ELSE <<>>
        missing == \E i \in 1..Min2(Len(ds), SampledPrefix) :
                      \/ ds[i].item_id = ""
                      \/ ds[i].content.len = 0
                      \/ ds[i].category = MissingCategory
        item_ids == SelectSeq([i \in 1..Len(ds) |-> ds[i].item_id], LAMBDA x : x # "")
        duplicates == Len(item_ids) - Cardinality(Range(item_ids))
    IN size_issue
       \o (IF missing THEN <<Issue("critical", "missing_fields")>> ELSE <<>>)
       \o (IF duplicates > 0 THEN <<Issue("high", "duplicates")>> ELSE <<>>)

\* _extract_scores: the scores that are present, per kind
PresentScores(ds, field) ==
    SelectSeq([i \in 1..Len(ds) |-> ds[i][field]], LAMBDA x : x # NoneScore)

\* _calculate_score_metrics: the mean (0.0 for an empty list)
CalculateScoreMean(scores) == IF scores = <<>> THEN Zero ELSE RMean(scores)

ValidItems(ds, cfg) ==
    Cardinality({i \in 1..Len(ds) : /\ ds[i].quality_score # NoneScore
                                    /\ RLe(cfg.min_overall_quality, ds[i].quality_score)})

CheckQualityThresholdsClinicalOnly(overall, clinical, cfg) ==
    IF RLt(clinical, cfg.min_clinical_accuracy)
    THEN <<Issue("high", "clinical_threshold")>> ELSE <<>>

\* _check_quality_thresholds: the issues it adds
CheckQualityThresholds(overall, clinical, cfg) ==
    (IF RLt(overall, cfg.min_overall_quality)
     THEN <<Issue("high", "quality_threshold")>> ELSE <<>>)
    \o (IF RLt(clinical, cfg.min_clinical_accuracy)
        THEN <<Issue("high", "clinical_threshold")>> ELSE <<>>)

\* category names of the items whose category can be read, in dataset order
\* (reading the category of an item without one raises and the item is skipped)
CategoryNames(ds) ==
    SelectSeq([i \in 1..Len(ds) |-> ds[i].category], LAMBDA c : c # MissingCategory)

\* category_counts, as the keys in insertion order and the count of each
CategoryKeys(ds) ==
    LET names == CategoryNames(ds)
        firsts == FirstOccurrences(names)
    IN [k \in 1..Len(firsts) |-> names[firsts[k]]]

CategoryCount(ds, c) == CountIn(CategoryNames(ds), c)

\* _validate_categories: the issues it adds
ValidateCategories(ds, cfg) ==
    LET keys == CategoryKeys(ds)
        counts == [k \in 1..Len(keys) |-> CategoryCount(ds, keys[k])]
        small == SelectSeq(keys, LAMBDA c : CategoryCount(ds, c) < cfg.min_items_per_category)
        max_count == CHOOSE x \in Range(counts) : \A y \in Range(counts) : y <= x
        min_count == CHOOSE x \in Range(counts) : \A y \in Range(counts) : x <= y
    IN [k \in 1..Len(small) |-> Issue("medium", "category_size")]
       \o (IF keys # <<>> /\ RLt(cfg.max_category_imbalance, Rat(max_count, min_count))
           THEN <<Issue("medium", "category_imbalance")>> ELSE <<>>)

\* _validate_ratios: the ratio_validation block
RatioValidation(ds, cfg) ==
    LET keys == CategoryKeys(ds)
        actual == [c \in Range(keys) |-> Rat(CategoryCount(ds, c), Len(ds))]
        targets == [c \in Range(TargetCategories) |-> TargetRatio(c)]
        deviations == [c \in Range(TargetCategories) |->
                          RAbs(RSub(targets[c],
                                    IF c \in DOMAIN actual THEN actual[c] ELSE Zero))]
        max_deviation == CHOOSE d \in {deviations[c] : c \in DOMAIN deviations} :
                            \A c \in DOMAIN deviations : RLe(deviations[c], d)
    IN [target_ratios |-> targets, actual_ratios |-> actual,
        deviations |-> deviations, max_deviation |-> max_deviation,
        within_tolerance |-> RLe(max_deviation, cfg.ratio_tolerance)]

\* _validate_ratios: the issues it adds, in target order
ValidateRatios(ds, cfg) ==
    LET rv == RatioValidation(ds, cfg)
        off == SelectSeq(TargetCategories,
                         LAMBDA c : RLt(cfg.ratio_tolerance, rv.deviations[c]))
    IN [k \in 1..Len(off) |-> Issue("medium", "ratio_deviation")]

CategoryBalanceScore(rv) ==
    IF rv.max_deviation = Zero THEN One
    ELSE RMax(Zero, RSub(One, RMul(rv.max_deviation, <<2, 1>>)))

\* _validate_content_integrity: number of items without content
ContentIssues(ds) == Cardinality({i \in 1..Len(ds) : ds[i].content.len = 0})

\* _validate_content_integrity: the issues it adds
ValidateContentIntegrity(ds, cfg) ==
    LET off == SelectSeq(Indices(ds),
                   LAMBDA i : /\ ds[i].content.len # 0
                              /\ \/ ds[i].content.len < cfg.min_content_length
                                 \/ ds[i].content.len > cfg.max_content_length)
    IN [k \in 1..Len(off) |-> Issue("low", "content_length")]
       \o (IF ContentIssues(ds) > 0 THEN <<Issue("medium", "content_integrity")>> ELSE <<>>)

ContentIntegrityScore(ds) ==
    IF ds = <<>> THEN Zero
    ELSE RMax(Zero, RSub(One, Rat(ContentIssues(ds), Len(ds))))

\* _validate_diversity: the issues it adds
ValidateDiversity(ds, cfg) ==
    LET few == SelectSeq(Indices(ds),
                   LAMBDA i : Cardinality(ds[i].diversity_features)
                                 < cfg.required_diversity_features)
    IN [k \in 1..Len(few) |-> Issue("low", "diversity_features")]

DiversityScore(ds, cfg) ==
    IF ds = <<>> THEN Zero
    ELSE LET all_features == UNION {ds[i].diversity_features : i \in 1..Len(ds)}
             avg_features == RMean([i \in 1..Len(ds) |->
                                       <<Cardinality(ds[i].diversity_features), 1>>])
             coverage_score == RMin(One, Rat(Cardinality(all_features), IdealFeatureCount))
             distribution_score ==
                 RMin(One, RDivInt(avg_features, cfg.required_diversity_features))
         IN RDivInt(RAdd(coverage_score, distribution_score), 2)

\* _validate_clinical_accuracy: the issues it adds
ValidateClinicalAccuracy(ds, cfg) ==
    LET sample_size == Min2(cfg.clinical_validation_sample_size, Len(ds))
        clinical_issues ==
            Cardinality({i \in 1..sample_size :
                            /\ ds[i].clinical_accuracy # NoneScore
                            /\ RLt(ds[i].clinical_accuracy, cfg.min_clinical_accuracy)})
    IN IF RLt(Rat(sample_size, 5), <<clinical_issues, 1>>)
       THEN <<Issue("high", "clinical_accuracy")>> ELSE <<>>

MinStructureWords == 10

\* _validate_conversation_structure: the issues it adds
ValidateConversationStructure(ds, cfg) ==
    LET structure_issues ==
            Cardinality({i \in 1..Len(ds) :
                            /\ ds[i].content.len # 0
                            /\ ~(ds[i].content.dialogue /\ ds[i].content.words >= MinStructureWords)})
    IN IF RLt(Rat(Len(ds), 10), <<structure_issues, 1>>)
       THEN <<Issue("medium", "conversation_structure")>> ELSE <<>>

HighIssueRecommendationLimit == 5

SmallDatasetLimit == 1000

\* _generate_recommendations
GenerateRecommendations(r, cfg) ==
    (IF RLt(r.quality_metrics.overall_quality_score, <<4, 5>>) THEN <<"quality">> ELSE <<>>)
    \o (IF RLt(cfg.ratio_tolerance, r.ratio_validation.max_deviation)
        THEN <<"rebalance">> ELSE <<>>)
    \o (IF r.total_items < SmallDatasetLimit THEN <<"expand">> ELSE <<>>)
    \o (IF RLt(r.quality_metrics.diversity_score, <<7, 10>>) THEN <<"diversity">> ELSE <<>>)
    \o (IF RLt(r.quality_metrics.clinical_accuracy_score, <<4, 5>>) THEN <<"clinical">> ELSE <<>>)
    \o (IF Len(GetIssuesBySeverity(r.issues, "critical")) > 0 THEN <<"critical">> ELSE <<>>)
    \o (IF Len(GetIssuesBySeverity(r.issues, "high")) > HighIssueRecommendationLimit
        THEN <<"high">> ELSE <<>>)

DetermineValidationStatusNoQuality(r, cfg) ==
    IF Len(GetIssuesBySeverity(r.issues, "critical")) > 0 THEN FALSE
    ELSE RLe(<<3, 5>>, r.validation_score)

\* _determine_validation_status
DetermineValidationStatus(r, cfg) ==
    IF Len(GetIssuesBySeverity(r.issues, "critical")) > 0 THEN FALSE
    ELSE IF RLt(r.quality_metrics.overall_quality_score, cfg.min_overall_quality) THEN FALSE
    ELSE RLe(<<3, 5>>, r.validation_score)

\* validate_dataset: steps 1 to 11 in order
ValidateDatasetResult(ds, cfg) ==
    LET overall == CalculateScoreMean(PresentScores(ds, "quality_score"))
        clinical == CalculateScoreMean(PresentScores(ds, "clinical_accuracy"))
        conversation == CalculateScoreMean(PresentScores(ds, "conversation_quality"))
        rv == RatioValidation(ds, cfg)
        issues == ValidateDatasetStructure(ds, cfg)
                  \o CheckQualityThresholds(overall, clinical, cfg)
                  \o ValidateCategories(ds, cfg)
                  \o ValidateRatios(ds, cfg)
                  \o ValidateContentIntegrity(ds, cfg)
                  \o ValidateDiversity(ds, cfg)
                  \o ValidateClinicalAccuracy(ds, cfg)
                  \o ValidateConversationStructure(ds, cfg)
        metrics == [overall_quality_score |-> overall,
                    clinical_accuracy_score |-> clinical,
                    conversation_quality_score |-> conversation,
                    diversity_score |-> DiversityScore(ds, cfg),
                    content_integrity_score |-> ContentIntegrityScore(ds),
                    category_balance_score |-> CategoryBalanceScore(rv)]
        score == CalculateValidationScore(metrics, issues)
        r1 == [is_valid |-> FALSE, validation_score |-> score,
               quality_grade |-> CalculateQualityGrade(score),
               quality_metrics |-> metrics, issues |-> issues,
               ratio_validation |-> rv, recommendations |-> <<>>,
               total_items |-> Len(ds), valid_items |-> ValidItems(ds, cfg),
               invalid_items |-> Len(ds) - ValidItems(ds, cfg)]
        r2 == [r1 EXCEPT !.recommendations = GenerateRecommendations(r1, cfg)]
    IN [r2 EXCEPT !.is_valid = DetermineValidationStatus(r2, cfg)]

-----------------------------------------------------------------------------
(* Inputs of the validation specification *)

MaxItems == 3

AllFeatures == 1..IdealFeatureCount

GoodContent == [len |-> 60, words |-> 12, dialogue |-> TRUE]

ShortContent == [len |-> 5, words |-> 1, dialogue |-> FALSE]

EmptyContentItem == [len |-> 0, words |-> 0, dialogue |-> FALSE]

ItemPool ==
    { [item_id |-> "a", content |-> GoodContent, category |-> "clinical_conversations",
       quality_score |-> <<9, 10>>, clinical_accuracy |-> One,
       conversation_quality |-> One, diversity_features |-> AllFeatures],
      [item_id |-> "b", content |-> GoodContent, category |-> "edge_cases",
       quality_score |-> One, clinical_accuracy |-> <<4, 5>>,
       conversation_quality |-> <<9, 10>>, diversity_features |-> 1..10],
      [item_id |-> "c", content |-> GoodContent, category |-> "psychology_knowledge",
       quality_score |-> <<69, 100>>, clinical_accuracy |-> One,
       conversation_quality |-> One, diversity_features |-> AllFeatures],
      [item_id |-> "d", content |-> GoodContent, category |-> "clinical_conversations",
       quality_score |-> <<3, 5>>, clinical_accuracy |-> One,
       conversation_quality |-> One, diversity_features |-> AllFeatures],
      [item_id |-> "a", content |-> ShortContent, category |-> "edge_cases",
       quality_score |-> <<3, 10>>, clinical_accuracy |-> <<1, 2>>,
       conversation_quality |-> <<1, 2>>, diversity_features |-> {1}],
      [item_id |-> "e", content |-> GoodContent, category |-> "voice_derived_data",
       quality_score |-> NoneScore, clinical_accuracy |-> NoneScore,
       conversation_quality |-> NoneScore, diversity_features |-> {}],
      [item_id |-> "", content |-> EmptyContentItem, category |-> MissingCategory,
       quality_score |-> Zero, clinical_accuracy |-> Zero,
       conversation_quality |-> Zero, diversity_features |-> {1, 2}] }

ValidationConfigs ==
    { [DefaultValidationConfig EXCEPT !.min_dataset_size = n, !.min_overall_quality = q] :
        n \in {1, 100}, q \in {<<7, 10>>, <<1, 2>>} }

InitValid ==
    /\ vd_dataset \in SeqsUpTo(ItemPool, MaxItems)
    /\ vd_config \in ValidationConfigs
    /\ vd_pc = "idle"
    /\ vd_result = NoValidation
    /\ IdleDedup
    /\ IdleGrade
    /\ IdleSplit
    /\ IdlePipe
    /\ IdleFilter
    /\ IdleBalance

\* validate_dataset raises: _extract_scores appends a present score before it
\* compares it, so a score that is no number reaches statistics.mean, whose
\* TypeError nothing catches
ValidateDatasetRaises(ds) ==
    \E i \in 1..Len(ds) :
        MalformedScore \in {ds[i].quality_score, ds[i].clinical_accuracy,
                            ds[i].conversation_quality}

\* DatasetValidationQASystem.validate_dataset(dataset)
ValidateDataset ==
    /\ vd_pc = "idle"
    /\ IF ValidateDatasetRaises(vd_dataset)
       THEN /\ vd_pc' = "raised"
            /\ UNCHANGED vd_result
       ELSE /\ vd_result' = ValidateDatasetResult(vd_dataset, vd_config)
            /\ vd_pc' = "done"
    /\ UNCHANGED <<vd_dataset, vd_config, varsDedup, varsGrade, varsSplit, varsPipe, varsFilter, varsBalance>>

NextValid == ValidateDataset

SpecValid == InitValid /\ [][NextValid]_vars

(* Validation of malformed records: an item without a category attribute, a
   score that is no number, a score outside [0,1], absent scores, a category
   that is a plain string without a target ratio *)

EdgeItemPool ==
    { [item_id |-> "g", content |-> GoodContent, category |-> "clinical_conversations",
       quality_score |-> <<4, 5>>, clinical_accuracy |-> <<9, 10>>,
       conversation_quality |-> <<9, 10>>, diversity_features |-> AllFeatures],
      [item_id |-> "n", content |-> GoodContent, category |-> MissingCategory,
       quality_score |-> <<9, 10>>, clinical_accuracy |-> <<9, 10>>,
       conversation_quality |-> <<9, 10>>, diversity_features |-> AllFeatures],
      [item_id |-> "m", content |-> GoodContent, category |-> "edge_cases",
       quality_score |-> MalformedScore, clinical_accuracy |-> <<9, 10>>,
       conversation_quality |-> <<9, 10>>, diversity_features |-> AllFeatures],
      [item_id |-> "h", content |-> GoodContent, category |-> "edge_cases",
       quality_score |-> <<17, 10>>, clinical_accuracy |-> <<9, 10>>,
       conversation_quality |-> <<9, 10>>, diversity_features |-> AllFeatures],
      [item_id |-> "e", content |-> GoodContent, category |-> "voice_derived_data",
       quality_score |-> NoneScore, clinical_accuracy |-> NoneScore,
       conversation_quality |-> NoneScore, diversity_features |-> AllFeatures],
      [item_id |-> "u", content |-> GoodContent, category |-> "unknown",
       quality_score |-> <<9, 10>>, clinical_accuracy |-> <<9, 10>>,
       conversation_quality |-> <<9, 10>>, diversity_features |-> AllFeatures] }

InitValidEdge ==
    /\ vd_dataset \in SeqsUpTo(EdgeItemPool, MaxItems)
    /\ vd_config \in ValidationConfigs
    /\ vd_pc = "idle"
    /\ vd_result = NoValidation
    /\ IdleDedup
    /\ IdleGrade
    /\ IdleSplit
    /\ IdlePipe
    /\ IdleFilter
    /\ IdleBalance

SpecValidEdge == InitValidEdge /\ [][NextValid]_vars

-----------------------------------------------------------------------------
(* Grading specification: two results with arbitrary validation scores *)

GradeScale == 40

GradeScores == {Rat(k, GradeScale) : k \in 0..GradeScale}

InitGrade ==
    /\ gr_score \in [1..2 -> GradeScores]
    /\ gr_grade = [k \in 1..2 |-> "none"]
    /\ IdleDedup
    /\ IdleValid
    /\ IdleSplit
    /\ IdlePipe
    /\ IdleFilter
    /\ IdleBalance

\* result k: calculate_quality_grade()
CalculateGrade(k) ==
    /\ gr_grade[k] = "none"
    /\ gr_grade' = [gr_grade EXCEPT ![k] = CalculateQualityGrade(gr_score[k])]
    /\ UNCHANGED <<gr_score, varsDedup, varsValid, varsSplit, varsPipe, varsFilter, varsBalance>>

NextGrade == \E k \in 1..2 : CalculateGrade(k)

SpecGrade == InitGrade /\ [][NextGrade]_vars

-----------------------------------------------------------------------------
(* Splitting: TrainValidationTestSplitter                                  *)
(* An item is named by its position in sp_dataset (its object identity);   *)
(* the lists of a DatasetSplit are sequences of positions.                 *)

\* The random module keeps one generator for the whole process.  Its state
\* is modelled by a number below RngModulus and each draw advances it by a
\* linear congruential step: deterministic in the state, as the real one.
RngModulus == 101

\* random.seed(seed)
RngSeed(seed) == seed % RngModulus

RngStep(r) == (37 * r + 11) % RngModulus

\* the value below k drawn in generator state r
RandBelow(r, k) == r % k

Swap(x, i, j) == [x EXCEPT ![i] = x[j], ![j] = x[i]]

\* random.shuffle: for i from the last position down to the second, swap
\* x[i] with x[j], j drawn from the positions up to i
RECURSIVE ShuffleFrom(_, _, _)
ShuffleFrom(x, i, r) ==
    IF i < 2 THEN [list |-> x, rng |-> r]
    ELSE LET r2 == RngStep(r)
             j == RandBelow(r2, i) + 1
         IN ShuffleFrom(Swap(x, i, j), i - 1, r2)

Shuffle(x, r) == ShuffleFrom(x, Len(x), r)

\* int(a) of a float: truncation toward zero
PyInt(a) == IF a[1] >= 0 THEN a[1] \div a[2] ELSE -((-a[1]) \div a[2])

\* a slice bound as Python normalizes it for a list of length n
SliceBound(i, n) == IF i < 0 THEN Max2(i + n, 0) ELSE Min2(i, n)

\* s[lo:hi], positions counted from 0
PySlice(s, lo, hi) ==
    LET a == SliceBound(lo, Len(s))
        b == SliceBound(hi, Len(s))
    IN IF a >= b THEN <<>> ELSE SubSeq(s, a + 1, b)

\* s[lo:]
PySliceFrom(s, lo) == PySlice(s, lo, Len(s))

\* random_seed = None
NoneSeed == -1

\* math.isclose(a, b, rel_tol = 1e-6)
IsClose(a, b) ==
    RLe(RAbs(RSub(a, b)), RMul(Rat(1, 1000000), RMax(RAbs(a), RAbs(b))))

\* SplitConfig(...) without the check of __post_init__
SplitConfigUnchecked(train_ratio, validation_ratio, test_ratio, strategy, min_items, seed) ==
    [status |-> "accepted", train_ratio |-> train_ratio,
     validation_ratio |-> validation_ratio, test_ratio |-> test_ratio,
     strategy |-> strategy, min_items_per_split |-> min_items,
     random_seed |-> seed]

\* SplitConfig(...) with its __post_init__: the ratios must sum to 1.0
SplitConfig(train_ratio, validation_ratio, test_ratio, strategy, min_items, seed) ==
    LET total_ratio == RAdd(RAdd(train_ratio, validation_ratio), test_ratio)
    IN IF ~IsClose(total_ratio, One)
       THEN [status |-> "rejected"]
       ELSE [status |-> "accepted", train_ratio |-> train_ratio,
             validation_ratio |-> validation_ratio, test_ratio |-> test_ratio,
             strategy |-> strategy, min_items_per_split |-> min_items,
             random_seed |-> seed]

\* an item without a quality_score attribute
MissingScore == <<-1, 0>>

\* getattr(item, "quality_score", 0.8)
QualityScoreOf(item) ==
    IF item.quality_score = MissingScore THEN Rat(8, 10) ELSE item.quality_score

\* a quality_score of None cannot be compared in _get_quality_level nor
\* averaged in _calculate_quality_stats: TypeError
SplitRaises(dataset) ==
    \E i \in 1..Len(dataset) : QualityScoreOf(dataset[i]) = NoneScore

GetQualityLevel(quality_score) ==
    IF RLe(Rat(9, 10), quality_score) THEN "high"
    ELSE IF RLe(Rat(8, 10), quality_score) THEN "medium_high"
    ELSE IF RLe(Rat(7, 10), quality_score) THEN "medium"
    ELSE IF RLe(Rat(6, 10), quality_score) THEN "medium_low"
    ELSE "low"

\* the values of a dict of lists, in insertion order of the keys; keys[i] is
\* the key of item i
GroupsOf(keys) ==
    LET firsts == FirstOccurrences(keys)
    IN [g \in 1..Len(firsts) |->
            SelectSeq(Indices(keys), LAMBDA i : keys[i] = keys[firsts[g]])]

GroupByCategory(dataset) ==
    GroupsOf([i \in 1..Len(dataset) |-> dataset[i].category])

GroupByCategoryAndQuality(dataset) ==
    GroupsOf([i \in 1..Len(dataset) |->
                <<dataset[i].category, GetQualityLevel(QualityScoreOf(dataset[i]))>>])

\* the slice sizes with a group under 3 items still giving one item to validation
CategorySizesSplitSmall(total_size, config) ==
    LET train_size == Max2(1, PyInt(RMul(Rat(total_size, 1), config.train_ratio)))
        validation_size ==
            Max2(1, PyInt(RMul(Rat(total_size, 1), config.validation_ratio)))
    IN IF train_size + validation_size >= total_size
       THEN IF total_size >= 3
            THEN [train |-> total_size - 2, validation |-> 1]
            ELSE [train |-> total_size - 1, validation |-> 1]
       ELSE [train |-> train_size, validation |-> validation_size]

\* slice sizes computed as int(n * ratio), without the floor of one record
CategorySizesNoFloor(total_size, config) ==
    LET train_size == PyInt(RMul(Rat(total_size, 1), config.train_ratio))
        validation_size == PyInt(RMul(Rat(total_size, 1), config.validation_ratio))
    IN IF train_size + validation_size >= total_size
       THEN IF total_size >= 3
            THEN [train |-> total_size - 2, validation |-> 1]
            ELSE [train |-> total_size, validation |-> 0]
       ELSE [train |-> train_size, validation |-> validation_size]

\* round(a) of a float: to the nearest integer, a tie to the even one
PyRound(a) ==
    LET lower == a[1] \div a[2]
        rest == a[1] - lower * a[2]
    IN IF 2 * rest < a[2] THEN lower
       ELSE IF 2 * rest > a[2] THEN lower + 1
       ELSE IF lower % 2 = 0 THEN lower ELSE lower + 1

\* slice sizes cut at round(n * ratio), without the floor of one record and
\* without the correction for slices that fill the stratum
CategorySizesRounded(total_size, config) ==
    IF total_size < 3
    THEN [train |-> total_size, validation |-> 0]
    ELSE [train |-> PyRound(RMul(Rat(total_size, 1), config.train_ratio)),
          validation |-> PyRound(RMul(Rat(total_size, 1), config.validation_ratio))]

\* the slice sizes _split_category_items computes for total_size items
CategorySizes(total_size, config) ==
    LET train_size == Max2(1, PyInt(RMul(Rat(total_size, 1), config.train_ratio)))
        validation_size ==
            Max2(1, PyInt(RMul(Rat(total_size, 1), config.validation_ratio)))
    IN IF train_size + validation_size >= total_size
       THEN IF total_size >= 3
            THEN [train |-> total_size - 2, validation |-> 1]
            ELSE [train |-> total_size, validation |-> 0]
       ELSE [train |-> train_size, validation |-> validation_size]

\* _split_category_items with the test slice starting at the end of the train
\* slice instead of the end of the validation slice
SplitCategoryItemsOverlap(items, config, r) ==
    LET shuffled == Shuffle(items, r)
        size == CategorySizes(Len(items), config)
    IN [train |-> PySlice(shuffled.list, 0, size.train),
        validation |-> PySlice(shuffled.list, size.train, size.train + size.validation),
        test |-> PySliceFrom(shuffled.list, size.train),
        rng |-> shuffled.rng]

\* _split_category_items(items) in generator state r
SplitCategoryItems(items, config, r) ==
    LET shuffled == Shuffle(items, r)
        size == CategorySizes(Len(items), config)
    IN [train |-> PySlice(shuffled.list, 0, size.train),
        validation |-> PySlice(shuffled.list, size.train, size.train + size.validation),
        test |-> PySliceFrom(shuffled.list, size.train + size.validation),
        rng |-> shuffled.rng]

\* the three trailing random.shuffle calls of the stratified strategies
ShuffleSplits(acc) ==
    LET tr == Shuffle(acc.train, acc.rng)
        va == Shuffle(acc.validation, tr.rng)
        te == Shuffle(acc.test, va.rng)
    IN [train |-> tr.list, validation |-> va.list, test |-> te.list, rng |-> te.rng]

\* _random_split
RandomSplit(dataset, config, r) ==
    LET shuffled == Shuffle(Indices(dataset), r)
        total_size == Len(dataset)
        train_size == PyInt(RMul(Rat(total_size, 1), config.train_ratio))
        validation_size == PyInt(RMul(Rat(total_size, 1), config.validation_ratio))
    IN [train |-> PySlice(shuffled.list, 0, train_size),
        validation |-> PySlice(shuffled.list, train_size, train_size + validation_size),
        test |-> PySliceFrom(shuffled.list, train_size + validation_size),
        rng |-> shuffled.rng]

\* the loop of _stratified_split over the category groups
RECURSIVE StratifiedLoop(_, _, _)
StratifiedLoop(groups, config, acc) ==
    IF groups = <<>> THEN acc
    ELSE LET part == SplitCategoryItems(Head(groups), config, acc.rng)
         IN StratifiedLoop(Tail(groups), config,
                [train |-> acc.train \o part.train,
                 validation |-> acc.validation \o part.validation,
                 test |-> acc.test \o part.test, rng |-> part.rng])

StratifiedSplit(dataset, config, r) ==
    ShuffleSplits(StratifiedLoop(GroupByCategory(dataset), config,
        [train |-> <<>>, validation |-> <<>>, test |-> <<>>, rng |-> r]))

\* the loop of _quality_aware_split: groups under 3 items go to train whole
RECURSIVE QualityAwareLoop(_, _, _)
QualityAwareLoop(groups, config, acc) ==
    IF groups = <<>> THEN acc
    ELSE IF Len(Head(groups)) >= 3
    THEN LET part == SplitCategoryItems(Head(groups), config, acc.rng)
         IN QualityAwareLoop(Tail(groups), config,
                [train |-> acc.train \o part.train,
                 validation |-> acc.validation \o part.validation,
                 test |-> acc.test \o part.test, rng |-> part.rng])
    ELSE QualityAwareLoop(Tail(groups), config,
                [acc EXCEPT !.train = acc.train \o Head(groups)])

QualityAwareSplit(dataset, config, r) ==
    ShuffleSplits(QualityAwareLoop(GroupByCategoryAndQuality(dataset), config,
        [train |-> <<>>, validation |-> <<>>, test |-> <<>>, rng |-> r]))

BalancedSplit(dataset, config, r) == QualityAwareSplit(dataset, config, r)

\* dataset too small for splitting: split_dataset raises ValueError
TooSmall(dataset, config) == Len(dataset) < 3 * config.min_items_per_split

\* the strategy dispatch of split_dataset
ApplyStrategy(dataset, config, r) ==
    IF config.strategy = "random" THEN RandomSplit(dataset, config, r)
    ELSE IF config.strategy = "stratified" THEN StratifiedSplit(dataset, config, r)
    ELSE IF config.strategy = "quality_aware" THEN QualityAwareSplit(dataset, config, r)
    ELSE BalancedSplit(dataset, config, r)

\* the DatasetSplit split_dataset returns
DatasetSplit(split, dataset) ==
    [train_data |-> split.train, validation_data |-> split.validation,
     test_data |-> split.test, original_dataset_size |-> Len(dataset)]

(* Inputs of the splitting specification *)

MaxSplitItems == 4

SplitItemKinds ==
    { [category |-> "x", quality_score |-> Rat(19, 20)],
      [category |-> "x", quality_score |-> Rat(1, 2)],
      [category |-> "y", quality_score |-> Rat(19, 20)] }

SplitDatasets == {d \in SeqsUpTo(SplitItemKinds, MaxSplitItems) : Len(d) >= 2}

SplitStrategies == {"random", "stratified", "quality_aware", "balanced"}

\* (train, validation, test) ratios in twentieths: the default 0.70/0.15/0.15,
\* all-train, all-test, all-validation, a negative ratio and a sum of 1.5
RatioTriples ==
    { <<14, 3, 3>>, <<20, 0, 0>>, <<0, 0, 20>>, <<0, 20, 0>>,
      <<-10, 10, 20>>, <<10, 10, 10>> }

RandomSeeds == {42, NoneSeed}

\* the generator state the interpreter starts with is seeded from the system
InitialRngStates == {0, 57}

\* the smallest pool a splitter accepts is 3 * min_items_per_split
MinItemsPerSplit == 1

InitSplit ==
    /\ sp_dataset \in SplitDatasets
    /\ sp_config = NoSplitConfig
    /\ sp_rng \in InitialRngStates
    /\ sp_pc = [k \in 1..2 |-> "none"]
    /\ sp_result = [k \in 1..2 |-> NoSplit]
    /\ IdleDedup
    /\ IdleValid
    /\ IdleGrade
    /\ IdlePipe
    /\ IdleFilter
    /\ IdleBalance

\* the caller constructs the SplitConfig both splitters are configured with
NewSplitConfig(ratios, strategy, seed) ==
    /\ sp_config.status = "none"
    /\ sp_config' = SplitConfig(Rat(ratios[1], 20), Rat(ratios[2], 20),
                                Rat(ratios[3], 20), strategy, MinItemsPerSplit, seed)
    /\ UNCHANGED <<sp_dataset, sp_rng, sp_pc, sp_result, varsDedup, varsValid, varsGrade, varsPipe, varsFilter, varsBalance>>

\* TrainValidationTestSplitter(config) for splitter k: seeds the generator
NewSplitter(k) ==
    /\ sp_config.status = "accepted"
    /\ sp_pc[k] = "none"
    /\ sp_pc' = [sp_pc EXCEPT ![k] = "ready"]
    /\ sp_rng' = IF sp_config.random_seed # NoneSeed
                 THEN RngSeed(sp_config.random_seed)
                 ELSE sp_rng
    /\ UNCHANGED <<sp_dataset, sp_config, sp_result, varsDedup, varsValid, varsGrade, varsPipe, varsFilter, varsBalance>>

\* splitter k: split_dataset(sp_dataset)
SplitDataset(k) ==
    /\ sp_pc[k] = "ready"
    /\ IF TooSmall(sp_dataset, sp_config)
       THEN /\ sp_pc' = [sp_pc EXCEPT ![k] = "error"]
            /\ UNCHANGED <<sp_rng, sp_result>>
       ELSE IF SplitRaises(sp_dataset)
       THEN /\ sp_pc' = [sp_pc EXCEPT ![k] = "raised"]
            /\ UNCHANGED <<sp_rng, sp_result>>
       ELSE LET split == ApplyStrategy(sp_dataset, sp_config, sp_rng)
            IN /\ sp_pc' = [sp_pc EXCEPT ![k] = "done"]
               /\ sp_rng' = split.rng
               /\ sp_result' = [sp_result EXCEPT ![k] = DatasetSplit(split, sp_dataset)]
    /\ UNCHANGED <<sp_dataset, sp_config, varsDedup, varsValid, varsGrade, varsPipe, varsFilter, varsBalance>>

NextSplit ==
    \/ \E ratios \in RatioTriples, strategy \in SplitStrategies, seed \in RandomSeeds :
            NewSplitConfig(ratios, strategy, seed)
    \/ \E k \in 1..2 : NewSplitter(k)
    \/ \E k \in 1..2 : SplitDataset(k)

SpecSplit == InitSplit /\ [][NextSplit]_vars

(* One pool handed to the splitter and to the validator *)

MaxTinyItems == 2

\* a complete item, and one whose clinical_accuracy is no number
TinyItemPool ==
    { [item_id |-> "g", content |-> GoodContent, category |-> "clinical_conversations",
       quality_score |-> <<9, 10>>, clinical_accuracy |-> <<9, 10>>,
       conversation_quality |-> <<9, 10>>, diversity_features |-> AllFeatures],
      [item_id |-> "c", content |-> GoodContent, category |-> "edge_cases",
       quality_score |-> <<9, 10>>, clinical_accuracy |-> MalformedScore,
       conversation_quality |-> <<9, 10>>, diversity_features |-> AllFeatures] }

\* what the splitter reads of an item: category and quality_score
SplitterView(dataset) ==
    [i \in 1..Len(dataset) |->
        [category |-> dataset[i].category, quality_score |-> dataset[i].quality_score]]

InitTiny ==
    /\ vd_dataset \in SeqsUpTo(TinyItemPool, MaxTinyItems)
    /\ vd_config \in ValidationConfigs
    /\ vd_pc = "idle"
    /\ vd_result = NoValidation
    /\ sp_dataset = SplitterView(vd_dataset)
    /\ sp_config = NoSplitConfig
    /\ sp_rng = 0
    /\ sp_pc = [k \in 1..2 |-> "none"]
    /\ sp_result = [k \in 1..2 |-> NoSplit]
    /\ IdleDedup
    /\ IdleGrade
    /\ IdlePipe
    /\ IdleFilter
    /\ IdleBalance

NextTiny ==
    \/ \E strategy \in SplitStrategies : NewSplitConfig(<<14, 3, 3>>, strategy, 42)
    \/ NewSplitter(1)
    \/ SplitDataset(1)
    \/ ValidateDataset

SpecTiny == InitTiny /\ [][NextTiny]_vars

(* Pools with records whose quality score is absent *)

MaxAbsentItems == 3

\* records of one category: scored 0.95, scored 0.3, without a quality_score
\* attribute, and with quality_score = None
AbsentItemKinds ==
    { [category |-> "x", quality_score |-> Rat(19, 20)],
      [category |-> "x", quality_score |-> Rat(3, 10)],
      [category |-> "x", quality_score |-> MissingScore],
      [category |-> "x", quality_score |-> NoneScore] }

InitAbsent ==
    /\ sp_dataset \in {d \in SeqsUpTo(AbsentItemKinds, MaxAbsentItems) : Len(d) >= 3}
    /\ sp_config = NoSplitConfig
    /\ sp_rng = 0
    /\ sp_pc = [k \in 1..2 |-> "none"]
    /\ sp_result = [k \in 1..2 |-> NoSplit]
    /\ IdleDedup
    /\ IdleValid
    /\ IdleGrade
    /\ IdlePipe
    /\ IdleFilter
    /\ IdleBalance

NextAbsent ==
    \/ \E strategy \in SplitStrategies : NewSplitConfig(<<14, 3, 3>>, strategy, 42)
    \/ NewSplitter(1)
    \/ SplitDataset(1)

SpecAbsent == InitAbsent /\ [][NextAbsent]_vars

-----------------------------------------------------------------------------
(* Pipeline: ProductionDatasetGenerator.generate_production_dataset        *)
(* An item is named by its position in pl_source; a dataset is a sequence  *)
(* of positions.  The components the stages call (quality_filter,          *)
(* deduplication_system, categorization_system, ratio_balancer, validator) *)
(* are attributes _initialize_components always sets; what a call returns  *)
(* or whether it raises is an input of the stage.                          *)

\* the order-preserving sub-lists of a list
SelectAt(s, I) ==
    LET ix == SelectSeq(Indices(s), LAMBDA i : i \in I)
    IN [k \in 1..Len(ix) |-> s[ix[k]]]

Sublists(s) == {SelectAt(s, I) : I \in SUBSET (1..Len(s))}

\* what a component call does: it raises, or it returns a value
Raised == [raised |-> TRUE, value |-> <<>>]

Returned(v) == [raised |-> FALSE, value |-> v]

\* a filtering component returns some of the items it was given
FilterOutcomes(dataset) == {Raised} \cup {Returned(r) : r \in Sublists(dataset)}

\* the argument generate_production_dataset passes to the helper of a stage,
\* taken from the data with deduplication called on the raw pool and quality
\* filtering on its output
StageInputDedupFirst(stage, data) ==
    IF stage = "deduplication" THEN data.raw_dataset
    ELSE IF stage = "quality_filtering" THEN data.deduplicated_dataset
    ELSE IF stage = "categorization" THEN data.filtered_dataset
    ELSE IF stage = "ratio_balancing" THEN data.categorized_dataset
    ELSE data.balanced_dataset

\* the argument generate_production_dataset passes to the helper of a stage
StageInput(stage, data) ==
    IF stage = "quality_filtering" THEN data.raw_dataset
    ELSE IF stage = "deduplication" THEN data.filtered_dataset
    ELSE IF stage = "categorization" THEN data.deduplicated_dataset
    ELSE IF stage = "ratio_balancing" THEN data.categorized_dataset
    ELSE data.balanced_dataset

\* result.error_log.append(...) by the handler of a stage helper
LogError(result, stage) ==
    [result EXCEPT !.error_log = Append(@, [stage |-> stage, by |-> "helper"])]

\* result.stage_results[stage] = {...}
StageResult(result, stage) ==
    [result EXCEPT !.stage_results = Append(@, stage)]

\* the bookkeeping a helper does after its component call
HelperResult(result, stage, outcome) ==
    IF outcome.raised THEN LogError(result, stage) ELSE StageResult(result, stage)

\* self.current_stage = stage
EnterStage(stage) ==
    /\ pl_stage' = stage
    /\ pl_trace' = Append(pl_trace, stage)

(* Inputs of the pipeline specification *)

MaxPipeItems == 2

\* two kinds of record; a pool may hold the same kind twice (exact duplicates)
PipeItemKinds ==
    { [content |-> "p", quality_score |-> Rat(9, 10)],
      [content |-> "q", quality_score |-> Rat(1, 2)] }

PipelineConfigs ==
    { [validation_enabled |-> v, generate_reports |-> g, target_dataset_size |-> n] :
        v \in BOOLEAN, g \in BOOLEAN, n \in {1, 1000} }

InitPipe ==
    /\ pl_source \in SeqsUpTo(PipeItemKinds, MaxPipeItems)
    /\ pl_config \in PipelineConfigs
    /\ pl_stage = "initialization"
    /\ pl_trace = <<>>
    /\ pl_data = NoPipelineData
    /\ pl_metrics = NoPipelineMetrics
    /\ pl_received = NoneReceived
    /\ pl_result = NoPipelineResult
    /\ IdleDedup
    /\ IdleValid
    /\ IdleGrade
    /\ IdleSplit
    /\ IdleFilter
    /\ IdleBalance

\* Stage 1: _load_all_data.  It returns what the loaders yielded, topped up
\* with mock data when they yielded nothing; only an exception (logged by the
\* helper) leaves the raw pool empty
LoadAllData(raised) ==
    /\ pl_stage = "initialization"
    /\ raised \/ pl_source # <<>>
    /\ EnterStage("data_loading")
    /\ pl_data' = [pl_data EXCEPT !.raw_dataset = Indices(pl_source)]
    /\ pl_metrics' = [pl_metrics EXCEPT !.raw_data_loaded = Len(pl_source)]
    /\ pl_result' = StageResult(IF raised THEN LogError(pl_result, "data_loading")
                                ELSE pl_result, "data_loading")
    /\ UNCHANGED <<pl_source, pl_config, pl_received, varsDedup, varsValid, varsGrade, varsSplit, varsFilter, varsBalance>>

\* Stage 2: _apply_quality_filtering; the original dataset on an exception
ApplyQualityFiltering(outcome) ==
    LET dataset == StageInput("quality_filtering", pl_data)
        filtered_dataset == IF outcome.raised THEN dataset ELSE outcome.value
    IN /\ pl_stage = "data_loading"
       /\ outcome \in FilterOutcomes(dataset)
       /\ EnterStage("quality_filtering")
       /\ pl_received' = [pl_received EXCEPT !.quality_filtering = dataset]
       /\ pl_data' = [pl_data EXCEPT !.filtered_dataset = filtered_dataset]
       /\ pl_metrics' = [pl_metrics EXCEPT !.items_after_filtering = Len(filtered_dataset)]
       /\ pl_result' = HelperResult(pl_result, "quality_filtering", outcome)
       /\ UNCHANGED <<pl_source, pl_config, varsDedup, varsValid, varsGrade, varsSplit, varsFilter, varsBalance>>

\* Stage 3: _apply_deduplication; its input on an exception
ApplyDeduplication(outcome) ==
    LET dataset == StageInput("deduplication", pl_data)
        deduplicated_dataset == IF outcome.raised THEN dataset ELSE outcome.value
    IN /\ pl_stage = "quality_filtering"
       /\ outcome \in FilterOutcomes(dataset)
       /\ EnterStage("deduplication")
       /\ pl_received' = [pl_received EXCEPT !.deduplication = dataset]
       /\ pl_data' = [pl_data EXCEPT !.deduplicated_dataset = deduplicated_dataset]
       /\ pl_metrics' = [pl_metrics EXCEPT
                            !.items_after_deduplication = Len(deduplicated_dataset)]
       /\ pl_result' = HelperResult(pl_result, "deduplication", outcome)
       /\ UNCHANGED <<pl_source, pl_config, varsDedup, varsValid, varsGrade, varsSplit, varsFilter, varsBalance>>

\* Stage 4: _apply_categorization: the items it was given, categorized, or its
\* input on an exception
ApplyCategorization(raised) ==
    LET dataset == StageInput("categorization", pl_data)
    IN /\ pl_stage = "deduplication"
       /\ EnterStage("categorization")
       /\ pl_received' = [pl_received EXCEPT !.categorization = dataset]
       /\ pl_data' = [pl_data EXCEPT !.categorized_dataset = dataset]
       /\ pl_result' = HelperResult(pl_result, "categorization",
                                    IF raised THEN Raised ELSE Returned(dataset))
       /\ UNCHANGED <<pl_source, pl_config, pl_metrics, varsDedup, varsValid, varsGrade, varsSplit, varsFilter, varsBalance>>

\* Stage 5: _apply_ratio_balancing; on an exception the input truncated to
\* target_dataset_size
ApplyRatioBalancing(outcome) ==
    LET dataset == StageInput("ratio_balancing", pl_data)
        balanced_dataset ==
            IF outcome.raised THEN PySlice(dataset, 0, pl_config.target_dataset_size)
            ELSE outcome.value
    IN /\ pl_stage = "categorization"
       /\ outcome \in FilterOutcomes(dataset)
       /\ EnterStage("ratio_balancing")
       /\ pl_received' = [pl_received EXCEPT !.ratio_balancing = dataset]
       /\ pl_data' = [pl_data EXCEPT !.balanced_dataset = balanced_dataset]
       /\ pl_metrics' = [pl_metrics EXCEPT !.final_dataset_size = Len(balanced_dataset)]
       /\ pl_result' = HelperResult(pl_result, "ratio_balancing", outcome)
       /\ UNCHANGED <<pl_source, pl_config, varsDedup, varsValid, varsGrade, varsSplit, varsFilter, varsBalance>>

\* Stage 6, when validation is enabled: _apply_comprehensive_validation.  When
\* the validator raises the helper returns None, and reading is_valid of None
\* for the log line raises out of the stage: the run ends without success
ApplyComprehensiveValidation(raised, is_valid) ==
    LET dataset == StageInput("validation", pl_data)
        logged == HelperResult(pl_result, "validation",
                               IF raised THEN Raised ELSE Returned(<<>>))
    IN /\ pl_stage = "ratio_balancing"
       /\ pl_config.validation_enabled
       /\ EnterStage("validation")
       /\ pl_received' = [pl_received EXCEPT !.validation = dataset]
       /\ pl_result' =
            IF raised
            THEN [logged EXCEPT
                    !.error_log = Append(@, [stage |-> "validation", by |-> "run"]),
                    !.success = FALSE, !.metrics = pl_metrics, !.returned = TRUE]
            ELSE [logged EXCEPT
                    !.validation_result = IF is_valid THEN "valid" ELSE "invalid"]
       /\ UNCHANGED <<pl_source, pl_config, pl_data, pl_metrics, varsDedup, varsValid, varsGrade, varsSplit, varsFilter, varsBalance>>

\* Stage 7: _export_dataset writes the balanced pool and, when reports are on,
\* result.metrics as the metrics report; an exception is logged by the helper
ExportDataset(raised) ==
    LET dataset == StageInput("export", pl_data)
        logged == HelperResult(pl_result, "export",
                               IF raised THEN Raised ELSE Returned(<<>>))
    IN /\ ~pl_result.returned
       /\ \/ pl_stage = "validation"
          \/ pl_stage = "ratio_balancing" /\ ~pl_config.validation_enabled
       /\ EnterStage("export")
       /\ pl_received' = [pl_received EXCEPT !.export = dataset]
       /\ pl_result' =
            IF pl_config.generate_reports /\ ~raised
            THEN [logged EXCEPT !.exported_metrics = <<pl_result.metrics>>]
            ELSE logged
       /\ UNCHANGED <<pl_source, pl_config, pl_data, pl_metrics, varsDedup, varsValid, varsGrade, varsSplit, varsFilter, varsBalance>>

\* the end of the run without the assignment of COMPLETE to current_stage
FinalizeResultsStageKept ==
    /\ pl_stage = "export"
    /\ pl_result' = [pl_result EXCEPT !.dataset = pl_data.balanced_dataset,
                        !.success = TRUE, !.metrics = pl_metrics, !.returned = TRUE]
    /\ UNCHANGED <<pl_stage, pl_trace, pl_source, pl_config, pl_data, pl_metrics, pl_received, varsDedup, varsValid, varsGrade, varsSplit, varsFilter, varsBalance>>

\* the end of the run: result.dataset, success, metrics, current_stage COMPLETE
FinalizeResults ==
    /\ pl_stage = "export"
    /\ EnterStage("complete")
    /\ pl_result' = [pl_result EXCEPT !.dataset = pl_data.balanced_dataset,
                        !.success = TRUE, !.metrics = pl_metrics, !.returned = TRUE]
    /\ UNCHANGED <<pl_source, pl_config, pl_data, pl_metrics, pl_received, varsDedup, varsValid, varsGrade, varsSplit, varsFilter, varsBalance>>

NextPipe ==
    \/ \E raised \in BOOLEAN : LoadAllData(raised)
    \/ \E outcome \in FilterOutcomes(Indices(pl_source)) : ApplyQualityFiltering(outcome)
    \/ \E outcome \in FilterOutcomes(Indices(pl_source)) : ApplyDeduplication(outcome)
    \/ \E raised \in BOOLEAN : ApplyCategorization(raised)
    \/ \E outcome \in FilterOutcomes(Indices(pl_source)) : ApplyRatioBalancing(outcome)
    \/ \E raised, is_valid \in BOOLEAN : ApplyComprehensiveValidation(raised, is_valid)
    \/ \E raised \in BOOLEAN : ExportDataset(raised)
    \/ FinalizeResults

SpecPipe == InitPipe /\ [][NextPipe]_vars

-----------------------------------------------------------------------------
(* QualityFilteringSystem: scores, thresholds and decisions on the 100-point *)
(* scale of its tests                                                        *)

Factors == <<"language_quality", "coherence", "authenticity", "therapeutic_accuracy">>

\* the weights of the combined score
Weights ==
    [language_quality |-> Rat(25, 100), coherence |-> Rat(30, 100),
     authenticity |-> Rat(25, 100), therapeutic_accuracy |-> Rat(20, 100)]

\* individual_scores.get(factor, 0): a factor without a score counts as 0
ScoreOrZero(scores, factor) ==
    IF scores[factor] = NoneScore THEN Zero ELSE scores[factor]

\* the combined score with the weights renormalised over the factors present
CalculateCombinedScoreRenormalised(scores) ==
    LET present == SelectSeq(Factors, LAMBDA f : scores[f] # NoneScore)
        total == RSum([i \in 1..Len(present) |-> Weights[present[i]]])
        sum == RSum([i \in 1..Len(present) |->
                        RMul(Weights[present[i]], scores[present[i]])])
    IN IF present = <<>> THEN Zero ELSE Rat(sum[1] * total[2], sum[2] * total[1])

\* _calculate_combined_score(individual_scores)
CalculateCombinedScore(scores) ==
    RSum([i \in 1..Len(Factors) |->
            RMul(Weights[Factors[i]], ScoreOrZero(scores, Factors[i]))])

\* _has_critical_failures(individual_scores): a critical factor is below its
\* critical floor
HasCriticalFailures(scores, thresholds) ==
    \E f \in DOMAIN thresholds.critical_floors :
        IF scores[f] = NoneScore THEN thresholds.missing_is_critical
        ELSE RLt(scores[f], thresholds.critical_floors[f])

\* the decision with the acceptance threshold tested before the critical floors
MakeDecisionAcceptFirst(scores, thresholds) ==
    LET combined_score == CalculateCombinedScore(scores)
    IN IF RLe(thresholds.minimum_overall_score, combined_score) THEN "accept"
       ELSE IF HasCriticalFailures(scores, thresholds) THEN "reject"
       ELSE IF RLe(RSub(thresholds.minimum_overall_score, thresholds.review_band),
                   combined_score)
       THEN "review"
       ELSE "reject"

\* the decision rule of the filter
MakeDecision(scores, thresholds) ==
    LET combined_score == CalculateCombinedScore(scores)
    IN IF HasCriticalFailures(scores, thresholds) THEN "reject"
       ELSE IF RLe(thresholds.minimum_overall_score, combined_score) THEN "accept"
       ELSE IF RLe(RSub(thresholds.minimum_overall_score, thresholds.review_band),
                   combined_score)
       THEN "review"
       ELSE "reject"

\* the FilterResult of one conversation
FilterResult(scores, thresholds) ==
    [decision |-> MakeDecision(scores, thresholds),
     combined_score |-> CalculateCombinedScore(scores)]

(* Inputs of the quality filter specification *)

MaxScoreLevel == 4

\* a factor has no score or one of the evenly spaced scores 0 .. 100
ScoreValues == {NoneScore} \cup {Rat(100 * l, MaxScoreLevel) : l \in 0..MaxScoreLevel}

\* the acceptance thresholds of the lenient, default and strict settings; the
\* critical floor of language quality lies above 35 and at most at 50
QualityThresholds ==
    { [minimum_overall_score |-> Rat(m, 1), review_band |-> Rat(10, 1),
       critical_floors |-> c, missing_is_critical |-> x] :
        m \in {60, 70, 80},
        c \in { [language_quality |-> Rat(40, 1)],
                [language_quality |-> Rat(50, 1), coherence |-> Rat(50, 1)] },
        x \in BOOLEAN }

InitFilter ==
    /\ qf_scores \in [{Factors[i] : i \in 1..Len(Factors)} -> ScoreValues]
    /\ qf_thresholds \in QualityThresholds
    /\ qf_pc = "idle"
    /\ qf_result = NoFilterResult
    /\ IdleDedup
    /\ IdleValid
    /\ IdleGrade
    /\ IdleSplit
    /\ IdlePipe
    /\ IdleBalance

\* filter_conversation: score, decide, return the FilterResult
FilterConversation ==
    /\ qf_pc = "idle"
    /\ qf_result' = FilterResult(qf_scores, qf_thresholds)
    /\ qf_pc' = "done"
    /\ UNCHANGED <<qf_scores, qf_thresholds, varsDedup, varsValid, varsGrade, varsSplit, varsPipe, varsBalance>>

NextFilter == FilterConversation

SpecFilter == InitFilter /\ [][NextFilter]_vars

-----------------------------------------------------------------------------
(* RatioBalancingAlgorithms.balance_dataset: the pool as the number of       *)
(* records of each category                                                  *)

BalanceCategories == <<"A", "B">>

TotalCount(counts) == counts.A + counts.B

\* actual_ratio[c] = count[c] / total
ActualRatio(counts, c) ==
    IF TotalCount(counts) = 0 THEN Zero ELSE Rat(counts[c], TotalCount(counts))

\* deviation[c] = |target_ratio[c] - actual_ratio[c]|
Deviation(counts, config, c) ==
    RAbs(RSub(config.target_ratios[c], ActualRatio(counts, c)))

MaxDeviation(counts, config) ==
    RMax(Deviation(counts, config, "A"), Deviation(counts, config, "B"))

\* the report, recomputed from the pool
BalanceReport(counts, config) ==
    [max_deviation |-> MaxDeviation(counts, config),
     within_tolerance |-> RLe(MaxDeviation(counts, config), config.tolerance)]

\* an over-represented category of k records has to lose one more
MustDrop(counts, config, c, k) ==
    LET now == [counts EXCEPT ![c] = k]
    IN /\ RLt(config.tolerance, RSub(ActualRatio(now, c), config.target_ratios[c]))
       /\ k > config.min_items_per_category

\* an over-represented category loses records until it is within tolerance or
\* at min_items_per_category
DropRecords(counts, config, c) ==
    LET stops == {k \in 0..counts[c] : ~MustDrop(counts, config, c, k)}
    IN [counts EXCEPT ![c] = CHOOSE k \in stops : \A j \in stops : j <= k]

\* the most records category c may hold after duplication
DuplicationCap(counts, config, c) ==
    Max2(counts[c], config.max_duplication_factor * config.original_counts[c])

\* an under-represented category of k records has to gain one more
MustDuplicate(counts, config, c, k) ==
    LET now == [counts EXCEPT ![c] = k]
    IN /\ RLt(config.tolerance, RSub(config.target_ratios[c], ActualRatio(now, c)))
       /\ k < DuplicationCap(counts, config, c)

\* an under-represented category gains copies of its records until it is
\* within tolerance or at the maximum duplication factor
DuplicateRecords(counts, config, c) ==
    LET stops == {k \in counts[c]..DuplicationCap(counts, config, c) :
                    ~MustDuplicate(counts, config, c, k)}
    IN [counts EXCEPT ![c] = CHOOSE k \in stops : \A j \in stops : k <= j]

AdjustCategory(counts, config, c) ==
    IF RLt(config.target_ratios[c], ActualRatio(counts, c))
    THEN DropRecords(counts, config, c)
    ELSE DuplicateRecords(counts, config, c)

\* one balancing pass over the categories: "A" is adjusted, then "B" in the
\* pool that adjusting "A" left
BalancingPassResult(counts, config) ==
    CHOOSE after \in {AdjustCategory(afterA, config, "B") :
                         afterA \in {AdjustCategory(counts, config, "A")}} : TRUE

(* Inputs of the balancer specification *)

MaxCategoryItems == 3

\* target ratios in tenths: equal shares, 0.3 / 0.7, and a category with target 0
BalanceTargets ==
    { [A |-> Rat(5, 10), B |-> Rat(5, 10)],
      [A |-> Rat(3, 10), B |-> Rat(7, 10)],
      [A |-> Zero, B |-> One] }

BalancingConfigs(counts) ==
    { [target_ratios |-> t, tolerance |-> Rat(5, 100), min_items_per_category |-> m,
       max_duplication_factor |-> 2, original_counts |-> counts, max_iterations |-> k] :
        t \in BalanceTargets, m \in {0, 1, 2}, k \in {0, 1, 3} }

InitBalance ==
    /\ bl_counts \in [A : 0..MaxCategoryItems, B : 0..MaxCategoryItems]
    /\ bl_config \in BalancingConfigs(bl_counts)
    /\ bl_iter = 0
    /\ bl_pc = "idle"
    /\ bl_report = NoReport
    /\ IdleDedup
    /\ IdleValid
    /\ IdleGrade
    /\ IdleSplit
    /\ IdlePipe
    /\ IdleFilter

\* balance_dataset is called: the report of the pool as given
BalanceDataset ==
    /\ bl_pc = "idle"
    /\ \E report \in {BalanceReport(bl_counts, bl_config)} :
          /\ bl_report' = report
          /\ bl_pc' = IF report.within_tolerance THEN "done" ELSE "balancing"
          /\ UNCHANGED <<bl_counts, bl_config, bl_iter, varsDedup, varsValid, varsGrade, varsSplit, varsPipe, varsFilter>>

\* a balancing pass that is not counted against max_iterations
BalancingPassUncounted ==
    /\ bl_pc = "balancing"
    /\ bl_iter < bl_config.max_iterations
    /\ \E counts \in {BalancingPassResult(bl_counts, bl_config)} :
       \E report \in {BalanceReport(counts, bl_config)} :
          /\ bl_counts' = counts
          /\ bl_report' = report
          /\ bl_pc' = IF report.within_tolerance THEN "done" ELSE "balancing"
          /\ UNCHANGED <<bl_iter, bl_config, varsDedup, varsValid, varsGrade, varsSplit, varsPipe, varsFilter>>

\* one balancing pass, then the report recomputed
BalancingPass ==
    /\ bl_pc = "balancing"
    /\ bl_iter < bl_config.max_iterations
    /\ \E counts \in {BalancingPassResult(bl_counts, bl_config)} :
       \E report \in {BalanceReport(counts, bl_config)} :
          /\ bl_iter' = bl_iter + 1
          /\ bl_counts' = counts
          /\ bl_report' = report
          /\ bl_pc' = IF report.within_tolerance THEN "done" ELSE "balancing"
          /\ UNCHANGED <<bl_config, varsDedup, varsValid, varsGrade, varsSplit, varsPipe, varsFilter>>

\* max_iterations passes were made: the pool is returned as it is
ReturnBestAchieved ==
    /\ bl_pc = "balancing"
    /\ bl_iter >= bl_config.max_iterations
    /\ bl_pc' = "done"
    /\ UNCHANGED <<bl_counts, bl_config, bl_iter, bl_report, varsDedup, varsValid, varsGrade, varsSplit, varsPipe, varsFilter>>

NextBalance == BalanceDataset \/ BalancingPass \/ ReturnBestAchieved

SpecBalance == InitBalance /\ [][NextBalance]_vars

\* balance_dataset is one call that runs to its end
SpecBalanceFair == SpecBalance /\ WF_vars(NextBalance)

-----------------------------------------------------------------------------
(* Properties of the deduplication *)

DDValid == Range(ValidConversations(dd_input, dd_config))

DDHashes == [i \in 1..Len(dd_input) |-> ConvHash(dd_input[i], dd_config)]

First(hs, valid, i) == CHOOSE j \in valid :
                          /\ hs[j] = hs[i]
                          /\ \A k \in valid : hs[k] = hs[i] => j <= k

DDFirsts == LET hs == DDHashes
                valid == DDValid
            IN [i \in valid |-> First(hs, valid, i)]

ExpectedPair(firsts, i) ==
    [item1_id |-> dd_input[firsts[i]].id, item2_id |-> dd_input[i].id,
     similarity_score |-> 1, metric |-> "content_hash",
     duplicate_type |-> "exact_duplicate"]

\* C2: within each content-hash group the first record in input order is the
\* only one kept as unique; every other member has its id in removed_items and
\* contributes exactly one duplicate pair (survivor id, its id, 1.0,
\* CONTENT_HASH); a repeated run on the same input keeps the same survivors.
C2_FirstOfGroupSurvives ==
    dd_runs > 0 =>
        LET firsts == DDFirsts
            nonfirst == {i \in DOMAIN firsts : firsts[i] # i}
            survivors == DOMAIN firsts \ nonfirst
        IN /\ Range(dd_result.unique_positions) = survivors
           /\ Len(dd_result.unique_positions) = Cardinality(survivors)
           /\ \A i \in nonfirst : dd_input[i].id \in Range(dd_result.removed_items)
           /\ Len(dd_result.duplicate_pairs) = Cardinality(nonfirst)
           /\ \A i \in nonfirst :
                 CountIn(dd_result.duplicate_pairs, ExpectedPair(firsts, i))
                     = Cardinality({j \in nonfirst :
                                      ExpectedPair(firsts, j) = ExpectedPair(firsts, i)})
           /\ (dd_runs > 1 /\ dd_prev.input = dd_input) =>
                 dd_prev.result.unique_positions = dd_result.unique_positions

C2_Witness ==
    /\ dd_runs > 1
    /\ dd_prev.input = dd_input
    /\ dd_result.duplicate_count >= 1
    /\ dd_result.unique_count >= 2
    /\ \E i \in DOMAIN DDFirsts : DDFirsts[i] # i /\ DDFirsts[i] > 1

\* C9: deduplicating the list a previous run returned removes nothing
\* (duplicate_count = 0, removed_items and duplicate_groups empty) and returns
\* a list equal to its input.
C9_Idempotent ==
    (dd_runs > 1 /\ dd_prev.source = "returned") =>
        /\ dd_result.duplicate_count = 0
        /\ dd_result.removed_items = <<>>
        /\ dd_result.duplicate_groups = <<>>
        /\ dd_result.duplicate_pairs = <<>>
        /\ dd_unique = Indices(dd_input)

C9_Witness ==
    /\ dd_runs > 1
    /\ dd_prev.source = "returned"
    /\ dd_prev.result.duplicate_count >= 2
    /\ Len(dd_input) >= 1

\* a record whose content is empty or missing: no message, or every message
\* content "" or None
EmptyContent(conv) == \A m \in 1..Len(conv.messages) : conv.messages[m] \in {<<>>, NoneText}

DDEmpty == {i \in 1..Len(dd_input) : EmptyContent(dd_input[i])}

DDEmptyGrouped == DDEmpty \cap DDValid

DDEmptyHashGroup == LET hs == DDHashes IN {i \in DDValid : hs[i] = <<>>}

-----------------------------------------------------------------------------
(* Properties of the validation *)

CountSeverity(severity) ==
    Cardinality({i \in 1..Len(vd_result.issues) : vd_result.issues[i].severity = severity})

\* 100 * (weighted metrics - penalty) of the returned result
WeightedMinusPenalty ==
    LET m == vd_result.quality_metrics
    IN RSub(RSum(<<RMul(<<30, 1>>, m.overall_quality_score),
                   RMul(<<25, 1>>, m.clinical_accuracy_score),
                   RMul(<<20, 1>>, m.conversation_quality_score),
                   RMul(<<15, 1>>, m.diversity_score),
                   RMul(<<10, 1>>, m.content_integrity_score)>>),
            <<20 * CountSeverity("critical") + 10 * CountSeverity("high"), 1>>)

\* C3: validation_score = max(0, 0.30*quality + 0.25*clinical +
\* 0.20*conversation + 0.15*diversity + 0.10*integrity - 0.2*#Critical -
\* 0.1*#High) over the final issue list, and it lies in [0,1].
C3_ValidationScore ==
    vd_pc = "done" =>
        LET x == WeightedMinusPenalty
        IN /\ RMul(<<100, 1>>, vd_result.validation_score) = (IF RLt(x, Zero) THEN Zero ELSE x)
           /\ RLe(Zero, vd_result.validation_score)
           /\ RLe(vd_result.validation_score, One)

C3_Witness ==
    /\ vd_pc = "done"
    /\ CountSeverity("critical") >= 2
    /\ RLt(WeightedMinusPenalty, Zero)
    /\ vd_result.validation_score = Zero

\* C4: is_valid holds exactly when the result has no Critical issue, its
\* overall quality is at least min_overall_quality and its validation score
\* is at least 0.6.
C4_IsValidIff ==
    vd_pc = "done" =>
        (vd_result.is_valid
            <=> /\ CountSeverity("critical") = 0
                /\ RLe(vd_config.min_overall_quality,
                       vd_result.quality_metrics.overall_quality_score)
                /\ RLe(<<6, 10>>, vd_result.validation_score))

\* a single failing condition (overall quality) makes the dataset invalid
C4_Witness ==
    /\ vd_pc = "done"
    /\ CountSeverity("critical") = 0
    /\ RLe(<<6, 10>>, vd_result.validation_score)
    /\ RLt(vd_result.quality_metrics.overall_quality_score, vd_config.min_overall_quality)
    /\ ~vd_result.is_valid

AllBelowMinQuality ==
    \A i \in 1..Len(vd_dataset) :
        /\ vd_dataset[i].quality_score # NoneScore
        /\ RLt(vd_dataset[i].quality_score, vd_config.min_overall_quality)

\* C5 as stated: when every item scores below min_overall_quality the dataset
\* is invalid and graded D or F.
C5_Original ==
    (vd_pc = "done" /\ AllBelowMinQuality) =>
        /\ ~vd_result.is_valid
        /\ vd_result.quality_grade \in {"D", "F"}

\* C5 (amended): when every item scores below min_overall_quality the dataset
\* is invalid, a High quality_threshold issue is raised, the validation score
\* stays below 0.9 and the grade is never A (it can be B or C).
C5_BelowMinQualityInvalid ==
    (vd_pc = "done" /\ AllBelowMinQuality) =>
        /\ ~vd_result.is_valid
        /\ \E i \in 1..Len(vd_result.issues) :
              vd_result.issues[i] = Issue("high", "quality_threshold")
        /\ RLt(vd_result.validation_score, <<9, 10>>)
        /\ vd_result.quality_grade # "A"

C5_Witness ==
    /\ vd_pc = "done"
    /\ AllBelowMinQuality
    /\ Len(vd_dataset) >= 1
    /\ vd_result.quality_grade = "B"
    /\ ~vd_result.is_valid

GradeRank(g) == CASE g = "F" -> 0 [] g = "D" -> 1 [] g = "C" -> 2 [] g = "B" -> 3 [] g = "A" -> 4

\* C6: the grade follows the bands >=0.90 A, >=0.80 B, >=0.70 C, >=0.60 D,
\* else F, and a higher score never gets a lower grade.
C6_GradeBands ==
    /\ \A k \in 1..2 :
          gr_grade[k] # "none" =>
              LET s == gr_score[k]
                  g == gr_grade[k]
              IN /\ g = "A" <=> s[1] * 10 >= 9 * s[2]
                 /\ g = "B" <=> (s[1] * 10 >= 8 * s[2] /\ s[1] * 10 < 9 * s[2])
                 /\ g = "C" <=> (s[1] * 10 >= 7 * s[2] /\ s[1] * 10 < 8 * s[2])
                 /\ g = "D" <=> (s[1] * 10 >= 6 * s[2] /\ s[1] * 10 < 7 * s[2])
                 /\ g = "F" <=> s[1] * 10 < 6 * s[2]
    /\ \A j, k \in 1..2 :
          (gr_grade[j] # "none" /\ gr_grade[k] # "none" /\ RLe(gr_score[j], gr_score[k]))
              => GradeRank(gr_grade[j]) <= GradeRank(gr_grade[k])

C6_Witness ==
    /\ gr_grade[1] = "C"
    /\ gr_grade[2] = "B"
    /\ gr_score[2] = <<4, 5>>
    /\ RLt(gr_score[1], gr_score[2])

-----------------------------------------------------------------------------
(* Properties of the splitting *)

RatiosInRange(config) ==
    \A r \in {config.train_ratio, config.validation_ratio, config.test_ratio} :
        RLe(Zero, r) /\ RLe(r, One)

SplitLists(split) == <<split.train_data, split.validation_data, split.test_data>>

\* the three lists are pairwise disjoint, hold no item twice and together
\* hold every position of a pool of n items
IsPartition(split, n) ==
    LET all == Concat(SplitLists(split))
    IN /\ Len(all) = n
       /\ Range(all) = 1..n
       /\ \A a, b \in 1..3 : a # b =>
              Range(SplitLists(split)[a]) \cap Range(SplitLists(split)[b]) = {}

\* C1: whenever split_dataset returned, under any strategy and any accepted
\* configuration whose ratios all lie in [0,1], train, validation and test are
\* pairwise disjoint and hold every item of the pool exactly once, so their
\* sizes add up to the pool size, small strata included
C1_SplitPartition ==
    \A k \in 1..2 :
        (sp_pc[k] = "done" /\ RatiosInRange(sp_config)) =>
            /\ IsPartition(sp_result[k], Len(sp_dataset))
            /\ Len(sp_dataset) >= 3 * sp_config.min_items_per_split

\* a quality-aware split with the default ratios of a pool holding one stratum
\* under 3 items and one of at least 3, with all three lists non-empty
C1_Witness ==
    \E k \in 1..2 :
        /\ sp_pc[k] = "done"
        /\ sp_config.strategy = "quality_aware"
        /\ sp_config.train_ratio = Rat(14, 20)
        /\ \E g \in Range(GroupByCategoryAndQuality(sp_dataset)) : Len(g) < 3
        /\ \E g \in Range(GroupByCategoryAndQuality(sp_dataset)) : Len(g) >= 3
        /\ sp_result[k].validation_data # <<>>
        /\ sp_result[k].test_data # <<>>

\* C8: two splitters configured with the same random_seed that split the same
\* dataset return identical train, validation and test lists, whatever the
\* order of the two constructions and the two split_dataset calls
C8_Reproducible ==
    (sp_pc[1] = "done" /\ sp_pc[2] = "done" /\ sp_config.random_seed # NoneSeed) =>
        sp_result[1] = sp_result[2]

-----------------------------------------------------------------------------
(* Properties of the pipeline run *)

HasRun(stage) == stage \in Range(pl_trace)

\* two records of the dataset have the same content
ExactDuplicates(dataset) ==
    \E i, j \in 1..Len(dataset) :
        i # j /\ pl_source[dataset[i]].content = pl_source[dataset[j]].content

IsPrefix(s, t) == Len(s) <= Len(t) /\ s = SubSeq(t, 1, Len(s))

\* the stages of a run in the order generate_production_dataset enters them
ExpectedTrace ==
    IF pl_config.validation_enabled
    THEN <<"data_loading", "quality_filtering", "deduplication", "categorization",
           "ratio_balancing", "validation", "export", "complete">>
    ELSE <<"data_loading", "quality_filtering", "deduplication", "categorization",
           "ratio_balancing", "export", "complete">>

\* C7 as stated: deduplication runs on the raw pool before quality filtering,
\* so the quality filter never receives two records with the same content, and
\* validation runs on the balanced pool
C7_Original ==
    /\ HasRun("quality_filtering") =>
            /\ HasRun("deduplication")
            /\ pl_received.deduplication = pl_data.raw_dataset
            /\ ~ExactDuplicates(pl_received.quality_filtering)
    /\ HasRun("validation") => pl_received.validation = pl_data.balanced_dataset

\* C7: in every run the stages are entered in the order data loading, quality
\* filtering, deduplication, categorization, ratio balancing, validation (when
\* enabled); the quality filter receives the raw pool, the deduplicator the
\* filter's output, the categorizer the deduplicator's output, the balancer the
\* categorized pool, and validation runs on the balanced pool
C7_FilterBeforeDedup ==
    /\ IsPrefix(pl_trace, ExpectedTrace)
    /\ HasRun("quality_filtering") =>
            pl_received.quality_filtering = pl_data.raw_dataset
    /\ HasRun("deduplication") =>
            pl_received.deduplication = pl_data.filtered_dataset
    /\ HasRun("categorization") =>
            pl_received.categorization = pl_data.deduplicated_dataset
    /\ HasRun("ratio_balancing") =>
            pl_received.ratio_balancing = pl_data.categorized_dataset
    /\ HasRun("validation") => pl_received.validation = pl_data.balanced_dataset

\* a run that validated a non-empty balanced pool after the quality filter had
\* been given a raw pool with two records of the same content, one of which
\* the deduplicator then removed
C7_Witness ==
    /\ HasRun("validation")
    /\ pl_result.validation_result = "valid"
    /\ ExactDuplicates(pl_received.quality_filtering)
    /\ ~ExactDuplicates(pl_data.deduplicated_dataset)
    /\ Len(pl_data.deduplicated_dataset) < Len(pl_received.deduplication)
    /\ pl_received.validation # <<>>

-----------------------------------------------------------------------------
(* Properties of the validation of malformed records *)

\* processing item i raises in the category loops (no category attribute) or
\* in the score extraction (a score that cannot be compared)
CategoryRaises(item) == item.category = MissingCategory

ScoreRaises(item) == item.quality_score = MalformedScore

\* C11: when processing an item raises during score extraction or
\* categorization, validate_dataset still returns a result for the whole pool,
\* that result holds a Medium issue citing the item's id, and the item is left
\* out of the metric being computed (the quality mean, the category counts)
C11_ItemExceptionIssue ==
    vd_pc # "idle" =>
        /\ vd_pc = "done"
        /\ vd_result.total_items = Len(vd_dataset)
        /\ \A i \in 1..Len(vd_dataset) :
              (CategoryRaises(vd_dataset[i]) \/ ScoreRaises(vd_dataset[i])) =>
                  \E k \in 1..Len(vd_result.issues) :
                      /\ vd_result.issues[k].severity = "medium"
                      /\ vd_result.issues[k].field_name = vd_dataset[i].item_id

RECURSIVE SumRatios(_, _)
SumRatios(f, S) ==
    IF S = {} THEN Zero
    ELSE LET c == CHOOSE x \in S : TRUE
         IN RAdd(f[c], SumRatios(f, S \ {c}))

Unresolvable(ds) == {i \in 1..Len(ds) : ds[i].category = MissingCategory}

\* C12: a record with no resolvable category is counted under "unknown" in the
\* ratio validation: the actual ratios of a non-empty pool sum to 1, and when
\* such records exist actual_ratios["unknown"] is their share of the pool and
\* the result holds an issue
C12_UnknownCounted ==
    (vd_pc = "done" /\ vd_dataset # <<>>) =>
        LET actual == vd_result.ratio_validation.actual_ratios
            unknown == Cardinality(Unresolvable(vd_dataset))
        IN /\ SumRatios(actual, DOMAIN actual) = One
           /\ unknown > 0 =>
                /\ "unknown" \in DOMAIN actual
                /\ actual["unknown"] = Rat(unknown, Len(vd_dataset))
                /\ vd_result.issues # <<>>

\* a score that is present and valid: a number within [0,1]
PresentAndValid(x) ==
    /\ x # NoneScore
    /\ x # MalformedScore
    /\ RLe(Zero, x)
    /\ RLe(x, One)

MeanOfValid(ds, field) ==
    LET scores == SelectSeq([i \in 1..Len(ds) |-> ds[i][field]], PresentAndValid)
    IN IF scores = <<>> THEN Zero ELSE RMean(scores)

\* C13: each aggregate metric of the result is the arithmetic mean over exactly
\* the items whose score of that kind is present and within [0,1]; an absent
\* score is left out of the mean, not counted as 0
C13_MeanOverPresentValid ==
    vd_pc = "done" =>
        LET m == vd_result.quality_metrics
        IN /\ m.overall_quality_score = MeanOfValid(vd_dataset, "quality_score")
           /\ m.clinical_accuracy_score = MeanOfValid(vd_dataset, "clinical_accuracy")
           /\ m.conversation_quality_score =
                  MeanOfValid(vd_dataset, "conversation_quality")


(* Properties of small strata and of rejected inputs of the splitter *)

StratifiedStrategies == {"stratified", "quality_aware", "balanced"}

\* the strata of the pool under the configured strategy: the categories for
\* stratified, the (category, quality level) pairs for quality_aware and balanced
StrataOf(dataset, config) ==
    IF config.strategy = "stratified" THEN GroupByCategory(dataset)
    ELSE GroupByCategoryAndQuality(dataset)

\* C14: whenever split_dataset returned under the stratified, quality_aware or
\* balanced strategy, every record of a stratum holding fewer than 3 records
\* is in the training list: such a stratum is not split
C14_SmallStratumToTrain ==
    \A k \in 1..2 :
        (sp_pc[k] = "done" /\ sp_config.strategy \in StratifiedStrategies) =>
            \A g \in Range(StrataOf(sp_dataset, sp_config)) :
                Len(g) < 3 => Range(g) \subseteq Range(sp_result[k].train_data)

\* a stratified split of a pool with a category of 1 record next to a category
\* of 3 records that is split into all three lists
C14_Witness ==
    \E k \in 1..2 :
        /\ sp_pc[k] = "done"
        /\ sp_config.strategy = "stratified"
        /\ \E g \in Range(GroupByCategory(sp_dataset)) : Len(g) = 1
        /\ \E g \in Range(GroupByCategory(sp_dataset)) : Len(g) = 3
        /\ sp_result[k].validation_data # <<>>
        /\ sp_result[k].test_data # <<>>

\* C15: on a pool smaller than 3 times min_items_per_split, split_dataset
\* raises under every strategy without assigning any record to a split, while
\* validate_dataset on the same pool, the empty pool included, does not raise
\* and returns a result whose is_valid is false
C15_TinyPoolFatalOnlyForSplitter ==
    (sp_config.status = "accepted" /\ TooSmall(sp_dataset, sp_config)) =>
        /\ \A k \in 1..2 : sp_pc[k] # "done" /\ sp_result[k] = NoSplit
        /\ vd_pc # "raised"
        /\ vd_pc = "done" => ~vd_result.is_valid

\* no splitter was constructed and no record was assigned to a split
NothingSplit ==
    \A k \in 1..2 : sp_pc[k] = "none" /\ sp_result[k] = NoSplit

\* the construction of a SplitConfig is rejected exactly for the ratio triples
\* whose sum is not 1
RejectsExactlyBadSums ==
    \A ratios \in RatioTriples, strategy \in SplitStrategies, seed \in RandomSeeds :
        NewSplitConfig(ratios, strategy, seed) =>
            (sp_config'.status = "rejected" <=> ratios[1] + ratios[2] + ratios[3] # 20)

\* C16: constructing a SplitConfig whose three ratios do not sum to 1.0 raises
\* at construction, so that no splitter is ever built from it and no record is
\* processed; a SplitConfig whose ratios sum to 1.0 is accepted
C16_RatioSumChecked ==
    /\ [](sp_config.status = "rejected" => NothingSplit)
    /\ [](sp_config.status = "accepted" =>
             RAdd(RAdd(sp_config.train_ratio, sp_config.validation_ratio),
                  sp_config.test_ratio) = One)
    /\ [][RejectsExactlyBadSums]_vars

\* a SplitConfig with ratios 0.5, 0.5, 0.5 was constructed and rejected
C16_Witness ==
    /\ sp_config.status = "rejected"
    /\ sp_dataset # <<>>
    /\ NothingSplit

(* Properties of the content hash *)

\* the punctuation characters among the characters of the message texts
IsPunctuation(c) == c \in {"!", "_"}

\* a text with its letters lowercased, its punctuation characters deleted, its
\* whitespace runs reduced to one space and no leading or trailing whitespace
CaseFolded(t) ==
    Strip(CollapseSpaces(SelectSeq(LowerText(t), LAMBDA c : ~IsPunctuation(c))))

\* two records with as many messages, whose corresponding message texts differ
\* at most in letter case, punctuation characters and whitespace
DifferOnlyInCasePunctuationSpace(c1, c2) ==
    /\ Len(c1.messages) = Len(c2.messages)
    /\ \A m \in 1..Len(c1.messages) :
           /\ c1.messages[m] # NoneText
           /\ c2.messages[m] # NoneText
           /\ CaseFolded(c1.messages[m]) = CaseFolded(c2.messages[m])

\* the records at positions i and j of the last input share a duplicate group
GroupedTogether(i, j) ==
    \E k \in 1..Len(dd_result.duplicate_groups) :
        {dd_input[i].id, dd_input[j].id} \subseteq Range(dd_result.duplicate_groups[k])

\* C17: under every DeduplicationConfig, two records that pass the length
\* filter and whose texts differ only in letter case, punctuation characters
\* or whitespace have the same content hash and are put in one group of exact
\* duplicates
C17_HashIgnoresCasePunctuationSpace ==
    dd_runs > 0 =>
        \A i, j \in Range(ValidConversations(dd_input, dd_config)) :
            (i < j /\ DifferOnlyInCasePunctuationSpace(dd_input[i], dd_input[j])) =>
                /\ ConvHash(dd_input[i], dd_config) = ConvHash(dd_input[j], dd_config)
                /\ GroupedTogether(i, j)

(* Properties of the stage sequence of a pipeline run *)

\* the position of a stage in the PipelineStage enumeration
StageRank(stage) ==
    CASE stage = "initialization" -> 0
      [] stage = "data_loading" -> 1
      [] stage = "quality_filtering" -> 2
      [] stage = "deduplication" -> 3
      [] stage = "categorization" -> 4
      [] stage = "ratio_balancing" -> 5
      [] stage = "validation" -> 6
      [] stage = "export" -> 7
      [] stage = "complete" -> 8

\* the stages entered so far are in enumeration order, none twice
StagesInOrder ==
    \A i \in 1..(Len(pl_trace) - 1) : StageRank(pl_trace[i]) < StageRank(pl_trace[i + 1])

\* a completed run went through every stage, validation exactly when enabled
CompleteRunHasAllStages ==
    pl_stage = "complete" =>
        Range(pl_trace) =
            {"data_loading", "quality_filtering", "deduplication", "categorization",
             "ratio_balancing", "export", "complete"}
            \cup (IF pl_config.validation_enabled THEN {"validation"} ELSE {})

\* a returned run is COMPLETE exactly when it succeeded; a failed run stays at
\* the stage it failed in, and error_log has the run's entry for that stage
RunEndsConsistently ==
    pl_result.returned =>
        /\ pl_stage = "complete" <=> pl_result.success
        /\ ~pl_result.success =>
              /\ pl_stage = pl_trace[Len(pl_trace)]
              /\ [stage |-> pl_stage, by |-> "run"] \in Range(pl_result.error_log)

\* C18: within one run of generate_production_dataset the stages are entered
\* in the fixed order data_loading, quality_filtering, deduplication,
\* categorization, ratio_balancing, validation (when enabled), export, each at
\* most once; current_stage never moves back; the run ends with current_stage
\* COMPLETE exactly when result.success is true, and otherwise current_stage
\* is the stage that failed and error_log records that stage
C18_StagesInFixedOrder ==
    /\ [](StagesInOrder /\ CompleteRunHasAllStages /\ RunEndsConsistently)
    /\ [][StageRank(pl_stage') >= StageRank(pl_stage)]_vars

\* a run over a non-empty pool that failed in the validation stage after the
\* five earlier stages
C18_Witness ==
    /\ pl_result.returned
    /\ ~pl_result.success
    /\ pl_stage = "validation"
    /\ Len(pl_trace) = 6
    /\ pl_source # <<>>

(* Properties of the quality filter *)

\* a critical factor of the conversation has a score below its critical floor
BelowCriticalFloor ==
    \E f \in DOMAIN qf_thresholds.critical_floors :
        /\ qf_scores[f] # NoneScore
        /\ RLt(qf_scores[f], qf_thresholds.critical_floors[f])

\* the scores of test_has_critical_failures: language quality 50 and coherence
\* 60 are no critical failure, language quality 35 is one
CriticalFailureTests ==
    /\ ~HasCriticalFailures(
            [language_quality |-> Rat(50, 1), coherence |-> Rat(60, 1),
             authenticity |-> Rat(100, 1), therapeutic_accuracy |-> Rat(100, 1)],
            qf_thresholds)
    /\ HasCriticalFailures(
            [language_quality |-> Rat(35, 1), coherence |-> Rat(100, 1),
             authenticity |-> Rat(100, 1), therapeutic_accuracy |-> Rat(100, 1)],
            qf_thresholds)

\* C19: the filter gives every conversation exactly one of accept, review and
\* reject: reject when a critical factor is below its critical floor, whatever
\* the combined score; without a critical failure, accept exactly when
\* combined_score >= minimum_overall_score, review exactly when combined_score
\* is below that threshold by at most the review band, and reject below the band
C19_DecisionTotal ==
    qf_pc = "done" =>
        LET decision == qf_result.decision
            combined_score == qf_result.combined_score
            minimum == qf_thresholds.minimum_overall_score
            band_floor == RSub(minimum, qf_thresholds.review_band)
        IN /\ decision \in {"accept", "review", "reject"}
           /\ BelowCriticalFloor => decision = "reject"
           /\ ~HasCriticalFailures(qf_scores, qf_thresholds) =>
                 /\ decision = "accept" <=> RLe(minimum, combined_score)
                 /\ decision = "review" <=>
                        RLe(band_floor, combined_score) /\ RLt(combined_score, minimum)
                 /\ decision = "reject" <=> RLt(combined_score, band_floor)
           /\ CriticalFailureTests

\* a conversation whose combined score reaches the acceptance threshold and
\* whose language quality is below the critical floor was rejected
C19_Witness ==
    /\ qf_pc = "done"
    /\ BelowCriticalFloor
    /\ RLe(qf_thresholds.minimum_overall_score, qf_result.combined_score)
    /\ qf_result.decision = "reject"

\* the value a factor adds to the weighted sum, in hundredths of a point
Contribution(scores, factor, percent) ==
    IF scores[factor] = NoneScore THEN Zero
    ELSE Rat(percent * scores[factor][1], 100 * scores[factor][2])

\* C20: combined_score is 0.25 * language_quality + 0.30 * coherence +
\* 0.25 * authenticity + 0.20 * therapeutic_accuracy with 0 for a missing
\* score; it lies within the scale 0 .. 100, and taking a factor's score away
\* never gives a higher combined score
C20_CombinedScoreWeighted ==
    qf_pc = "done" =>
        /\ qf_result.combined_score =
              RAdd(RAdd(Contribution(qf_scores, "language_quality", 25),
                        Contribution(qf_scores, "coherence", 30)),
                   RAdd(Contribution(qf_scores, "authenticity", 25),
                        Contribution(qf_scores, "therapeutic_accuracy", 20)))
        /\ RLe(Zero, qf_result.combined_score)
        /\ RLe(qf_result.combined_score, Rat(100, 1))
        /\ \A i \in 1..Len(Factors) :
              RLe(CalculateCombinedScore([qf_scores EXCEPT ![Factors[i]] = NoneScore]),
                  qf_result.combined_score)
        /\ CalculateCombinedScore(
              [language_quality |-> Rat(80, 1), coherence |-> Rat(85, 1),
               authenticity |-> Rat(75, 1), therapeutic_accuracy |-> Rat(70, 1)])
              = Rat(313, 4)

\* a conversation without a coherence score and 100 for the other factors was
\* given the combined score 70
C20_Witness ==
    /\ qf_pc = "done"
    /\ qf_scores.coherence = NoneScore
    /\ \A f \in {"language_quality", "authenticity", "therapeutic_accuracy"} :
           qf_scores[f] = Rat(100, 1)
    /\ qf_result.combined_score = Rat(70, 1)

(* Properties of the ratio balancer *)

\* C21: the ratio balancer always terminates: it makes at most max_iterations
\* balancing passes, and when the targets are not reached within them it
\* returns the pool it has with within_tolerance = false; within_tolerance of
\* the returned report is true exactly when max_deviation <= tolerance
C21_BalancerTerminates ==
    /\ [](bl_iter <= bl_config.max_iterations)
    /\ [](bl_pc = "done" =>
             /\ bl_report = BalanceReport(bl_counts, bl_config)
             /\ bl_report.within_tolerance <=>
                    RLe(bl_report.max_deviation, bl_config.tolerance)
             /\ ~bl_report.within_tolerance => bl_iter = bl_config.max_iterations)
    /\ <>(bl_pc = "done")

\* the balancer returned after 3 passes a pool still out of tolerance, held
\* there by min_items_per_category
C21_Witness ==
    /\ bl_pc = "done"
    /\ bl_iter = 3
    /\ ~bl_report.within_tolerance
    /\ bl_config.target_ratios.A = Zero
    /\ bl_counts.A = bl_config.min_items_per_category
    /\ bl_counts.A > 0

-----------------------------------------------------------------------------
(* Properties of the per-stratum slice sizes *)

\* the number of records of stratum g in the list data
InStratum(g, data) == Cardinality(Range(g) \cap Range(data))

\* max(1, int(n * ratio))
AtLeastOne(n, ratio) == Max2(1, PyInt(RMul(Rat(n, 1), ratio)))

\* every stratum of 3 or more records of a returned split has train(n), val(n)
\* and n - train(n) - val(n) of its records in the three lists
StrataCutAt(train(_), val(_)) ==
    \A k \in 1..2 :
        (sp_pc[k] = "done" /\ sp_config.strategy \in StratifiedStrategies) =>
            \A g \in Range(StrataOf(sp_dataset, sp_config)) :
                Len(g) >= 3 =>
                    /\ InStratum(g, sp_result[k].train_data) = train(Len(g))
                    /\ InStratum(g, sp_result[k].validation_data) = val(Len(g))
                    /\ InStratum(g, sp_result[k].test_data) =
                           Len(g) - train(Len(g)) - val(Len(g))

\* C22 as stated: of every stratum of n >= 3 records, round(n * train_ratio)
\* records are in train, round(n * validation_ratio) in validation and the
\* remainder in test
C22_StratumCutAtRounded ==
    LET train(n) == PyRound(RMul(Rat(n, 1), sp_config.train_ratio))
        val(n) == PyRound(RMul(Rat(n, 1), sp_config.validation_ratio))
    IN StrataCutAt(train, val)

\* C22 amended: of every stratum of n >= 3 records, with
\* t = max(1, int(n * train_ratio)) and v = max(1, int(n * validation_ratio)),
\* t records are in train and v in validation when t + v < n, n - 2 in train
\* and 1 in validation otherwise, and the remainder is in test
C22_StratumCutAtFloored ==
    LET t(n) == AtLeastOne(n, sp_config.train_ratio)
        v(n) == AtLeastOne(n, sp_config.validation_ratio)
        train(n) == IF t(n) + v(n) < n THEN t(n) ELSE n - 2
        val(n) == IF t(n) + v(n) < n THEN v(n) ELSE 1
    IN StrataCutAt(train, val)

\* a stratified split at 0.70/0.15/0.15 of a pool with a category of 4 records:
\* 2 of them in train, 1 in validation and 1 in test
C22_Witness ==
    \E k \in 1..2 :
        /\ sp_pc[k] = "done"
        /\ sp_config.strategy = "stratified"
        /\ sp_config.train_ratio = Rat(14, 20)
        /\ \E g \in Range(GroupByCategory(sp_dataset)) :
              /\ Len(g) = 4
              /\ InStratum(g, sp_result[k].train_data) = 2
              /\ InStratum(g, sp_result[k].validation_data) = 1
              /\ InStratum(g, sp_result[k].test_data) = 1

\* C30: whenever split_dataset returned under the stratified, quality_aware or
\* balanced strategy, every stratum of 3 or more records has at least one of
\* its records in each of train, validation and test, whatever the accepted
\* ratios, and the three counts sum to the size of the stratum
C30_EverySliceNonEmpty ==
    \A k \in 1..2 :
        (sp_pc[k] = "done" /\ sp_config.strategy \in StratifiedStrategies) =>
            \A g \in Range(StrataOf(sp_dataset, sp_config)) :
                Len(g) >= 3 =>
                    /\ InStratum(g, sp_result[k].train_data) >= 1
                    /\ InStratum(g, sp_result[k].validation_data) >= 1
                    /\ InStratum(g, sp_result[k].test_data) >= 1
                    /\ InStratum(g, sp_result[k].train_data)
                         + InStratum(g, sp_result[k].validation_data)
                         + InStratum(g, sp_result[k].test_data) = Len(g)

\* a quality_aware split with validation_ratio = test_ratio = 0 of a pool with
\* a (category, quality level) group of 3 records, one of them in each list
C30_Witness ==
    \E k \in 1..2 :
        /\ sp_pc[k] = "done"
        /\ sp_config.strategy = "quality_aware"
        /\ sp_config.validation_ratio = Zero
        /\ sp_config.test_ratio = Zero
        /\ \E g \in Range(GroupByCategoryAndQuality(sp_dataset)) :
              /\ Len(g) = 3
              /\ InStratum(g, sp_result[k].train_data) = 1
              /\ InStratum(g, sp_result[k].validation_data) = 1
              /\ InStratum(g, sp_result[k].test_data) = 1


-----------------------------------------------------------------------------
(* Properties of records with an absent quality score *)

AbsentScore(item) == item.quality_score \in {MissingScore, NoneScore}

\* the (category, quality level) groups of the pool that hold record i
GroupsHolding(dataset, i) ==
    {g \in Range(GroupByCategoryAndQuality(dataset)) : i \in Range(g)}

\* the pool with score 0 in place of every absent quality score
ZeroDefaulted(dataset) ==
    [i \in 1..Len(dataset) |->
        IF AbsentScore(dataset[i]) THEN [dataset[i] EXCEPT !.quality_score = Zero]
        ELSE dataset[i]]

\* C24: split_dataset never raises because of a record whose quality score is
\* absent (no attribute, or None), and such a record is grouped as a record of
\* score 0 is: in the low quality group of its category
C24_AbsentScoreLowBucket ==
    /\ sp_pc[1] # "raised"
    /\ sp_pc[1] = "done" =>
           \A i \in 1..Len(sp_dataset) :
               AbsentScore(sp_dataset[i]) =>
                   GroupsHolding(sp_dataset, i) = GroupsHolding(ZeroDefaulted(sp_dataset), i)


-----------------------------------------------------------------------------
(* Properties of the accepted split ratios *)

\* C29: every SplitConfig that was accepted has its three ratios in [0,1], so
\* that the slice sizes int(n * train_ratio) and int(n * validation_ratio) of
\* the random strategy are non-negative and sum to at most n
C29_RatioRangeChecked ==
    sp_config.status = "accepted" =>
        LET n == Len(sp_dataset)
            train_size == PyInt(RMul(Rat(n, 1), sp_config.train_ratio))
            validation_size == PyInt(RMul(Rat(n, 1), sp_config.validation_ratio))
        IN /\ \A ratio \in {sp_config.train_ratio, sp_config.validation_ratio,
                              sp_config.test_ratio} :
                  RLe(Zero, ratio) /\ RLe(ratio, One)
           /\ train_size >= 0
           /\ validation_size >= 0
           /\ train_size + validation_size <= n


-----------------------------------------------------------------------------
(* Properties of the ratio report *)

\* f[c] when f has an entry for c, 0 otherwise
RatioOrZero(f, c) == IF c \in DOMAIN f THEN f[c] ELSE Zero

RatioIssues(issues) == SelectSeq(issues, LAMBDA i : i.issue_type = "ratio_deviation")

\* C23: the ratio report of a returned validation has a deviation
\* |target - actual| for every category that has a target or is present in the
\* pool (target 0 for a category without one), max_deviation is the largest of
\* them, within_tolerance holds exactly when max_deviation <= ratio_tolerance,
\* and the result holds one Medium ratio_deviation issue for each category
\* whose deviation exceeds the tolerance and no other ratio_deviation issue
C23_RatioReportComplete ==
    vd_pc = "done" =>
        LET rv == vd_result.ratio_validation
            cats == DOMAIN rv.target_ratios \cup DOMAIN rv.actual_ratios
            dev(c) == RAbs(RSub(RatioOrZero(rv.target_ratios, c),
                                RatioOrZero(rv.actual_ratios, c)))
            off == {c \in cats : RLt(vd_config.ratio_tolerance, dev(c))}
        IN /\ DOMAIN rv.deviations = cats
           /\ \A c \in cats : rv.deviations[c] = dev(c)
           /\ \A c \in cats : RLe(dev(c), rv.max_deviation)
           /\ \E c \in cats : dev(c) = rv.max_deviation
           /\ rv.within_tolerance <=> RLe(rv.max_deviation, vd_config.ratio_tolerance)
           /\ Len(RatioIssues(vd_result.issues)) = Cardinality(off)
           /\ \A k \in 1..Len(RatioIssues(vd_result.issues)) :
                  RatioIssues(vd_result.issues)[k].severity = "medium"


-----------------------------------------------------------------------------
(* Properties of the result of a pipeline run *)

ProcessingStages ==
    {"quality_filtering", "deduplication", "categorization", "ratio_balancing"}

\* C25: a run that returned success = true has an empty error_log, and the
\* output of each processing stage was produced by the stage (the stage
\* recorded its stage_results entry) and not by the fallback of its handler
C25_SuccessMeansNoFailure ==
    pl_result.success =>
        /\ pl_result.error_log = <<>>
        /\ ProcessingStages \subseteq Range(pl_result.stage_results)

\* C26: the metrics report the export stage wrote holds the counts the earlier
\* stages of the run recorded
C26_ExportedMetricsOfRun ==
    pl_result.exported_metrics # <<>> =>
        LET report == pl_result.exported_metrics[1]
        IN /\ report.raw_data_loaded = pl_metrics.raw_data_loaded
           /\ report.items_after_filtering = pl_metrics.items_after_filtering
           /\ report.items_after_deduplication = pl_metrics.items_after_deduplication
           /\ report.final_dataset_size = pl_metrics.final_dataset_size


-----------------------------------------------------------------------------
(* Properties of the returned list and of the counts of a deduplication *)

\* the positions of the input that are excluded from grouping or are the first
\* member of their content-hash group, in input order
DDExpectedReturn ==
    LET firsts == DDFirsts
    IN SelectSeq(Indices(dd_input), LAMBDA i : i \notin DDValid \/ firsts[i] = i)

\* C27: the list the module-level deduplicate_conversations returns holds, in
\* input order, the first member of every content-hash group and every record
\* excluded from grouping, and nothing else, whether or not records share an
\* id; its length is original_count - duplicate_count
C27_ReturnedListExact ==
    dd_runs > 0 =>
        /\ dd_unique = DDExpectedReturn
        /\ Len(dd_unique) = dd_result.original_count - dd_result.duplicate_count

\* the sizes of the content-hash groups, less one each, summed
DDSurplus ==
    LET firsts == DDFirsts
    IN Cardinality({i \in DOMAIN firsts : firsts[i] # i})

\* C28: the result of a deduplication accounts for every input record:
\* original_count = unique_count + duplicate_count, the records below the
\* minimum length counted as unique, and duplicate_count is the length of
\* removed_items and of duplicate_pairs and the sum of (group size - 1)
C28_CountsAccountForInput ==
    dd_runs > 0 =>
        /\ dd_result.original_count = Len(dd_input)
        /\ dd_result.original_count = dd_result.unique_count + dd_result.duplicate_count
        /\ dd_result.duplicate_count = Len(dd_result.removed_items)
        /\ dd_result.duplicate_count = Len(dd_result.duplicate_pairs)
        /\ dd_result.duplicate_count = DDSurplus

=============================================================================
